---------------------------- MODULE Spec2Model ----------------------------
(***************************************************************************)
(* Stroke-to-symbol clustering engine of the tutoring backend              *)
(* (backend/app/services/clustering.py), as a state machine.               *)
(*                                                                         *)
(* Units.  Canvas coordinates are integers in hundredths (0.12 is 12),     *)
(* times are integers in hundredths of a second (0.6 s is 60, the index    *)
(* fallback float(i) is 100 * i).  math.sqrt is never taken: a distance is *)
(* carried as its square and "sqrt(sq) <= thr" is decided exactly by       *)
(* SqrtLeq.  Arithmetic is exact, except in the direct calls of               *)
(* merge_clusters, which round as floats do (merge_clusters_float).         *)
(*                                                                         *)
(* Python values that may be absent or malformed (x, y, startedAt,         *)
(* endedAt, sequenceIndex) are tagged records: Num(n), None, Bad, where    *)
(* Bad is any value float()/int() raises on.                               *)
(***************************************************************************)
EXTENDS Integers, Sequences, FiniteSets, TLC

VARIABLES
    strokes,        \* the caller's list of stroke records (argument)
    cfg,            \* the keyword arguments of cluster_strokes
    pc,             \* position in cluster_strokes
    boxes,          \* line 192
    times,          \* line 193
    order,          \* line 195
    adj,            \* line 197
    oi, oj,         \* positions of the two scan loops in `order`
    checked,        \* line 201
    visited,        \* line 225
    clusters,       \* line 226
    ci,             \* the `i` of the component loop, line 228
    stack, comp,    \* lines 231, 233
    symbol_boxes,   \* line 244
    ret,            \* what the call returned (or that it raised)
    run,            \* which call on this input is running: 1 or 2
    first,          \* what the first call returned
    sm,             \* the frame of a direct call of should_merge_strokes
    parked,         \* the frame of a second, concurrent call of cluster_strokes
                    \* while the other call is the one running
    geo,            \* the frame of a direct call of a box helper
    graph           \* the state of a run of the canvas graph and the node it is at

vars == <<strokes, cfg, pc, boxes, times, order, adj, oi, oj, checked,
          visited, clusters, ci, stack, comp, symbol_boxes, ret, run, first, sm,
          parked, geo, graph>>

---------------------------------------------------------------------------
(* Python values *)

Num(n) == [tag |-> "num", val |-> n]
None   == [tag |-> "none", val |-> 0]
Bad    == [tag |-> "bad", val |-> 0]

IsNum(v) == v.tag = "num"

\* 0-based indexing of a Python list held as a TLA+ sequence
At(s, i) == s[i + 1]

Range0(n) == 0 .. (n - 1)

Abs(a) == IF a < 0 THEN -a ELSE a
Max2(a, b) == IF a >= b THEN a ELSE b
Min2(a, b) == IF a <= b THEN a ELSE b

\* min() and max() of a Python list of numbers; on an empty list they raise
\* ValueError
MinMaxRaises(s) == s = <<>>
MinOf(s) == CHOOSE m \in {s[k] : k \in DOMAIN s} : \A k \in DOMAIN s : m <= s[k]
MaxOf(s) == CHOOSE m \in {s[k] : k \in DOMAIN s} : \A k \in DOMAIN s : m >= s[k]

\* sqrt(sq) <= thr, exactly
SqrtLeq(sq, thr) == thr >= 0 /\ sq <= thr * thr

---------------------------------------------------------------------------
(* Box, schemas.py *)

Box(x, y, w, h) == [x |-> x, y |-> y, w |-> w, h |-> h]
right(b)  == b.x + b.w
bottom(b) == b.y + b.h

ZeroBox == Box(0, 0, 0, 0)

---------------------------------------------------------------------------
(* intersection_over_union, lines 8-29.  The quotient of line 29 is kept  *)
(* as the pair of its numerator and denominator; 0.0 is 0 / 1.             *)

Quotient(num, den) == [num |-> num, den |-> den]

\* intersection_over_union with the union taken as the sum of the two areas
intersection_over_union_NoSubtract(a, b) ==
    LET inter_w == Max2(0, Min2(right(a), right(b)) - Max2(a.x, b.x))
        inter_h == Max2(0, Min2(bottom(a), bottom(b)) - Max2(a.y, b.y))
        inter_area == inter_w * inter_h
        union_area == (a.w * a.h) + (b.w * b.h)
    IN  IF union_area <= 0 THEN Quotient(0, 1) ELSE Quotient(inter_area, union_area)

intersection_over_union(a, b) ==
    LET inter_left == Max2(a.x, b.x)
        inter_right == Min2(right(a), right(b))
        inter_top == Max2(a.y, b.y)
        inter_bottom == Min2(bottom(a), bottom(b))
        inter_w == Max2(0, inter_right - inter_left)
        inter_h == Max2(0, inter_bottom - inter_top)
        inter_area == inter_w * inter_h
        area_a == a.w * a.h
        area_b == b.w * b.h
        union_area == (area_a + area_b) - inter_area
    IN  IF union_area <= 0 THEN Quotient(0, 1) ELSE Quotient(inter_area, union_area)

---------------------------------------------------------------------------
(* should_merge, lines 32-57, with the default iou_threshold = 0.5 and     *)
(* center_factor = 0.5 (cluster_boxes passes no others).  Box.center is    *)
(* carried doubled, so that w / 2 stays an integer, and                    *)
(* "sqrt(dx**2 + dy**2) < 0.5 * size" is decided on the squares of the     *)
(* doubled sides, size being at least 0.                                   *)

\* twice Box.center, schemas.py lines 112-114
center2(b) == <<(2 * b.x) + b.w, (2 * b.y) + b.h>>

\* should_merge accepting a centre distance equal to center_factor * size
should_merge_Inclusive(a, b) ==
    LET iou == intersection_over_union(a, b)
        dx2 == Abs(center2(a)[1] - center2(b)[1])
        dy2 == Abs(center2(a)[2] - center2(b)[2])
        size == Max2(Max2(a.w, a.h), Max2(b.w, b.h))
    IN  IF 2 * iou.num >= iou.den THEN TRUE
        ELSE IF size >= 0 /\ (dx2 * dx2) + (dy2 * dy2) <= size * size THEN TRUE
        ELSE FALSE

should_merge(a, b) ==
    LET iou == intersection_over_union(a, b)
        dx2 == Abs(center2(a)[1] - center2(b)[1])
        dy2 == Abs(center2(a)[2] - center2(b)[2])
        size == Max2(Max2(a.w, a.h), Max2(b.w, b.h))
    IN  IF 2 * iou.num >= iou.den THEN TRUE
        ELSE IF size > 0 /\ (dx2 * dx2) + (dy2 * dy2) < size * size THEN TRUE
        ELSE FALSE

---------------------------------------------------------------------------
(* rect_gap, lines 60-63: the squared distance; math.sqrt is applied by   *)
(* the comparison SqrtLeq                                                  *)

rect_gap_sq(a, b) ==
    LET x_gap == Max2(0, Max2(b.x - right(a), a.x - right(b)))
        y_gap == Max2(0, Max2(b.y - bottom(a), a.y - bottom(b)))
    IN  (x_gap * x_gap) + (y_gap * y_gap)

---------------------------------------------------------------------------
(* stroke_to_box, lines 66-87 *)

\* the loop of lines 73-78 from point k on: xs.append(float(x)) happens
\* before float(y) is tried, so an exception on y leaves x appended
RECURSIVE ParsePoints(_, _, _, _)
ParsePoints(pts, k, xs, ys) ==
    IF k > Len(pts) THEN [xs |-> xs, ys |-> ys]
    ELSE LET p == pts[k] IN
         IF ~IsNum(p.x) THEN ParsePoints(pts, k + 1, xs, ys)
         ELSE IF ~IsNum(p.y) THEN ParsePoints(pts, k + 1, Append(xs, p.x.val), ys)
         ELSE ParsePoints(pts, k + 1, Append(xs, p.x.val), Append(ys, p.y.val))

\* stroke_to_box without its two emptiness checks (lines 68-69, 80-81): min()
\* then meets an empty list
stroke_to_box_NoGuards(stroke) ==
    LET r == ParsePoints(stroke.points, 1, <<>>, <<>>) IN
    IF MinMaxRaises(r.xs) \/ MinMaxRaises(r.ys) THEN [exc |-> TRUE, box |-> ZeroBox]
    ELSE [exc |-> FALSE,
          box |-> Box(MinOf(r.xs), MinOf(r.ys),
                      Max2(0, MaxOf(r.xs) - MinOf(r.xs)), Max2(0, MaxOf(r.ys) - MinOf(r.ys)))]

\* the result is [exc |-> an exception escaped, box |-> the Box returned]
stroke_to_box(stroke) ==
    LET pts == stroke.points IN
    IF pts = <<>> THEN [exc |-> FALSE, box |-> ZeroBox]
    ELSE LET r == ParsePoints(pts, 1, <<>>, <<>>) IN
         IF r.xs = <<>> \/ r.ys = <<>> THEN [exc |-> FALSE, box |-> ZeroBox]
         ELSE LET min_x == MinOf(r.xs)
                  max_x == MaxOf(r.xs)
                  min_y == MinOf(r.ys)
                  max_y == MaxOf(r.ys)
              IN [exc |-> MinMaxRaises(r.xs) \/ MinMaxRaises(r.ys),
                  box |-> Box(min_x, min_y, Max2(0, max_x - min_x), Max2(0, max_y - min_y))]

---------------------------------------------------------------------------
(* _stroke_endpoints, lines 90-102, and endpoint_distance, lines 105-121 *)

NoEndpoints == [none |-> TRUE, a |-> <<0, 0>>, b |-> <<0, 0>>]

_stroke_endpoints(stroke) ==
    LET pts == stroke.points IN
    IF Len(pts) < 1 THEN NoEndpoints
    ELSE LET p0 == pts[1]
             p1 == pts[Len(pts)]
         IN IF IsNum(p0.x) /\ IsNum(p0.y) /\ IsNum(p1.x) /\ IsNum(p1.y)
            THEN [none |-> FALSE, a |-> <<p0.x.val, p0.y.val>>, b |-> <<p1.x.val, p1.y.val>>]
            ELSE NoEndpoints

DistSq(p, q) == ((p[1] - q[1]) * (p[1] - q[1])) + ((p[2] - q[2]) * (p[2] - q[2]))

\* endpoint_distance returning 0.0 for a stroke without endpoints
endpoint_distance_ZeroWhenNone(a, b) ==
    LET ea == _stroke_endpoints(a)
        eb == _stroke_endpoints(b)
    IN IF ea.none \/ eb.none THEN [inf |-> FALSE, sq |-> 0]
       ELSE [inf |-> FALSE,
             sq |-> Min2(Min2(DistSq(ea.a, eb.a), DistSq(ea.a, eb.b)),
                         Min2(DistSq(ea.b, eb.a), DistSq(ea.b, eb.b)))]

\* [inf |-> the result is float("inf"), sq |-> else the square of the result]
endpoint_distance(a, b) ==
    LET ea == _stroke_endpoints(a)
        eb == _stroke_endpoints(b)
    IN IF ea.none \/ eb.none THEN [inf |-> TRUE, sq |-> 0]
       ELSE LET d1 == DistSq(ea.a, eb.a)
                d2 == DistSq(ea.a, eb.b)
                d3 == DistSq(ea.b, eb.a)
                d4 == DistSq(ea.b, eb.b)
            IN [inf |-> FALSE, sq |-> Min2(Min2(d1, d2), Min2(d3, d4))]

---------------------------------------------------------------------------
(* _stroke_time_window, lines 124-137; fallback is float(i), in seconds *)

\* _stroke_time_window taking the window of an untimed stroke from the t of
\* its first and last point
_stroke_time_window_FromPoints(stroke, fallback) ==
    LET start0 == stroke.startedAt
        end0   == stroke.endedAt
        pts    == stroke.points
    IN IF start0.tag = "none" /\ end0.tag = "none"
       THEN IF pts = <<>> THEN <<fallback, fallback>> ELSE <<pts[1].t, pts[Len(pts)].t>>
       ELSE LET start == IF start0.tag = "none" THEN end0 ELSE start0
                end   == IF end0.tag = "none" THEN start ELSE end0
            IN IF IsNum(start) /\ IsNum(end) THEN <<start.val, end.val>>
               ELSE <<fallback, fallback>>

\* _stroke_time_window falling back to 0.0 instead of the stroke's index
_stroke_time_window_ZeroFallback(stroke, fallback) ==
    LET start0 == stroke.startedAt
        end0   == stroke.endedAt
    IN IF start0.tag = "none" /\ end0.tag = "none" THEN <<0, 0>>
       ELSE LET start == IF start0.tag = "none" THEN end0 ELSE start0
                end   == IF end0.tag = "none" THEN start ELSE end0
            IN IF IsNum(start) /\ IsNum(end) THEN <<start.val, end.val>>
               ELSE <<0, 0>>

\* _stroke_time_window without lines 131-134: a stroke with only one of the
\* two timestamps falls back to its index
_stroke_time_window_NoCopy(stroke, fallback) ==
    LET start0 == stroke.startedAt
        end0   == stroke.endedAt
    IN IF start0.tag = "none" \/ end0.tag = "none" THEN <<fallback, fallback>>
       ELSE IF IsNum(start0) /\ IsNum(end0) THEN <<start0.val, end0.val>>
       ELSE <<fallback, fallback>>

_stroke_time_window(stroke, fallback) ==
    LET start0 == stroke.startedAt
        end0   == stroke.endedAt
    IN IF start0.tag = "none" /\ end0.tag = "none" THEN <<fallback, fallback>>
       ELSE LET start == IF start0.tag = "none" THEN end0 ELSE start0
                end   == IF end0.tag = "none" THEN start ELSE end0
            IN IF IsNum(start) /\ IsNum(end) THEN <<start.val, end.val>>
               ELSE <<fallback, fallback>>

(* _time_gap_s, lines 140-143 *)
_time_gap_s(a, b) == Min2(Abs(a[1] - b[2]), Abs(b[1] - a[2]))

---------------------------------------------------------------------------
(* should_merge_strokes, lines 146-177 *)

\* the gates with the sequence comparison of lines 162-164 left out
GateRejects_NoSeqGate(a_stroke, b_stroke, time_window_s, seq_window, a_time, b_time) ==
    LET a_seq == a_stroke.sequenceIndex
        b_seq == b_stroke.sequenceIndex
    IN IF a_seq.tag # "none" /\ b_seq.tag # "none"
       THEN FALSE
       ELSE _time_gap_s(a_time, b_time) > time_window_s

\* the gates with the `else` of line 167 dropped: the time window is tested
\* for sequence-indexed strokes as well
GateRejects_AlwaysTime(a_stroke, b_stroke, time_window_s, seq_window, a_time, b_time) ==
    LET a_seq == a_stroke.sequenceIndex
        b_seq == b_stroke.sequenceIndex
    IN \/ /\ a_seq.tag # "none" /\ b_seq.tag # "none"
          /\ IsNum(a_seq) /\ IsNum(b_seq) /\ Abs(a_seq.val - b_seq.val) > seq_window
       \/ _time_gap_s(a_time, b_time) > time_window_s

\* lines 161-169: TRUE when one of the two gates returns False
GateRejects(a_stroke, b_stroke, time_window_s, seq_window, a_time, b_time) ==
    LET a_seq == a_stroke.sequenceIndex
        b_seq == b_stroke.sequenceIndex
    IN IF a_seq.tag # "none" /\ b_seq.tag # "none"
       THEN IsNum(a_seq) /\ IsNum(b_seq) /\ Abs(a_seq.val - b_seq.val) > seq_window
       ELSE _time_gap_s(a_time, b_time) > time_window_s

\* should_merge_strokes with the box gap compared strictly (<) at line 171
should_merge_strokes_StrictGap(a_stroke, b_stroke, a_box, b_box, gap_threshold, endpoint_threshold, time_window_s, seq_window, a_time, b_time) ==
    IF GateRejects(a_stroke, b_stroke, time_window_s, seq_window, a_time, b_time)
    THEN FALSE
    ELSE IF gap_threshold > 0 /\ rect_gap_sq(a_box, b_box) < gap_threshold * gap_threshold THEN TRUE
    ELSE LET d == endpoint_distance(a_stroke, b_stroke)
         IN  ~d.inf /\ SqrtLeq(d.sq, endpoint_threshold)

\* should_merge_strokes with the geometric tests of lines 171-175 made before
\* the gates
should_merge_strokes_GeometryFirst(a_stroke, b_stroke, a_box, b_box, gap_threshold, endpoint_threshold, time_window_s, seq_window, a_time, b_time) ==
    IF SqrtLeq(rect_gap_sq(a_box, b_box), gap_threshold) THEN TRUE
    ELSE IF GateRejects(a_stroke, b_stroke, time_window_s, seq_window, a_time, b_time)
    THEN FALSE
    ELSE LET d == endpoint_distance(a_stroke, b_stroke)
         IN  ~d.inf /\ SqrtLeq(d.sq, endpoint_threshold)

should_merge_strokes(a_stroke, b_stroke, a_box, b_box, gap_threshold, endpoint_threshold, time_window_s, seq_window, a_time, b_time) ==
    IF GateRejects(a_stroke, b_stroke, time_window_s, seq_window, a_time, b_time)
    THEN FALSE
    ELSE IF SqrtLeq(rect_gap_sq(a_box, b_box), gap_threshold) THEN TRUE
    ELSE LET d == endpoint_distance(a_stroke, b_stroke)
         IN  ~d.inf /\ SqrtLeq(d.sq, endpoint_threshold)

---------------------------------------------------------------------------
(* cluster_boxes, lines 248-284.  dfs (lines 271-276) works on the list    *)
(* `visited` of the enclosing call and on the list `current` it is given;  *)
(* both are carried in the record st.                                      *)

RECURSIVE dfs(_, _, _)
RECURSIVE dfs_loop(_, _, _, _)

\* the loop of lines 274-276, from j on
dfs_loop(bxs, i, j, st) ==
    IF j >= Len(bxs) THEN st
    ELSE IF ~At(st.visited, j) /\ should_merge(At(bxs, i), At(bxs, j))
         THEN dfs_loop(bxs, i, j + 1, dfs(bxs, j, st))
         ELSE dfs_loop(bxs, i, j + 1, st)

dfs(bxs, i, st) ==
    dfs_loop(bxs, i, 0, [visited |-> [st.visited EXCEPT ![i + 1] = TRUE],
                         current |-> Append(st.current, i)])

RECURSIVE cluster_boxes_from(_, _, _, _)

\* the loop of lines 279-283, from i on
cluster_boxes_from(bxs, i, vis, cls) ==
    IF i >= Len(bxs) THEN cls
    ELSE IF At(vis, i) THEN cluster_boxes_from(bxs, i + 1, vis, cls)
    ELSE LET st == dfs(bxs, i, [visited |-> vis, current |-> <<>>])
         IN  cluster_boxes_from(bxs, i + 1, st.visited, Append(cls, st.current))

cluster_boxes(bxs) == cluster_boxes_from(bxs, 0, [k \in 1 .. Len(bxs) |-> FALSE], <<>>)

---------------------------------------------------------------------------
(* merge_clusters, lines 288-311; min() of an empty list raises ValueError *)

\* merge_clusters taking the widest member's w and the tallest member's h
merge_clusters_MaxWH(bxs, indices) ==
    IF MinMaxRaises(indices) THEN [exc |-> TRUE, box |-> ZeroBox]
    ELSE LET xs == [k \in DOMAIN indices |-> At(bxs, indices[k]).x]
             ys == [k \in DOMAIN indices |-> At(bxs, indices[k]).y]
             ws == [k \in DOMAIN indices |-> At(bxs, indices[k]).w]
             hs == [k \in DOMAIN indices |-> At(bxs, indices[k]).h]
         IN [exc |-> FALSE, box |-> Box(MinOf(xs), MinOf(ys), MaxOf(ws), MaxOf(hs))]

\* merge_clusters returning the right and bottom edges as width and height
merge_clusters_Corners(bxs, indices) ==
    IF MinMaxRaises(indices) THEN [exc |-> TRUE, box |-> ZeroBox]
    ELSE LET xs      == [k \in DOMAIN indices |-> At(bxs, indices[k]).x]
             ys      == [k \in DOMAIN indices |-> At(bxs, indices[k]).y]
             rights  == [k \in DOMAIN indices |-> right(At(bxs, indices[k]))]
             bottoms == [k \in DOMAIN indices |-> bottom(At(bxs, indices[k]))]
         IN [exc |-> FALSE, box |-> Box(MinOf(xs), MinOf(ys), MaxOf(rights), MaxOf(bottoms))]

merge_clusters(bxs, indices) ==
    IF MinMaxRaises(indices) THEN [exc |-> TRUE, box |-> ZeroBox]
    ELSE LET xs      == [k \in DOMAIN indices |-> At(bxs, indices[k]).x]
             ys      == [k \in DOMAIN indices |-> At(bxs, indices[k]).y]
             rights  == [k \in DOMAIN indices |-> right(At(bxs, indices[k]))]
             bottoms == [k \in DOMAIN indices |-> bottom(At(bxs, indices[k]))]
             x_min   == MinOf(xs)
             y_min   == MinOf(ys)
             x_max   == MaxOf(rights)
             y_max   == MaxOf(bottoms)
         IN [exc |-> FALSE, box |-> Box(x_min, y_min, x_max - x_min, y_max - y_min)]

---------------------------------------------------------------------------
(* merge_clusters in floating point.  Box.right and Box.bottom (schemas.py *)
(* lines 96-102) and the two subtractions of lines 309-310 round their     *)
(* result to the nearest float; min() and max() are exact.  A float is     *)
(* modelled with `bits` significant binary digits (round to nearest, ties  *)
(* to even, no exponent limit); bits = 0 stands for exact arithmetic.      *)

RECURSIVE BitLen(_)
BitLen(v) == IF v = 0 THEN 0 ELSE 1 + BitLen(v \div 2)

RECURSIVE Pow2(_)
Pow2(k) == IF k = 0 THEN 1 ELSE 2 * Pow2(k - 1)

\* the float nearest to the real number v
Fl(bits, v) ==
    IF bits = 0 \/ BitLen(Abs(v)) <= bits THEN v
    ELSE LET a == Abs(v)
             u == Pow2(BitLen(a) - bits)
             q == a \div u
             r == a % u
             m == IF 2 * r > u \/ (2 * r = u /\ q % 2 = 1) THEN q + 1 ELSE q
         IN  IF v < 0 THEN 0 - (m * u) ELSE m * u

right_float(bits, b) == Fl(bits, b.x + b.w)
bottom_float(bits, b) == Fl(bits, b.y + b.h)

\* merge_clusters_float taking x and y from the first index of the list
merge_clusters_float_FirstXY(bits, bxs, indices) ==
    IF MinMaxRaises(indices) THEN [exc |-> TRUE, box |-> ZeroBox]
    ELSE LET rights  == [k \in DOMAIN indices |-> right_float(bits, At(bxs, indices[k]))]
             bottoms == [k \in DOMAIN indices |-> bottom_float(bits, At(bxs, indices[k]))]
             x_min   == At(bxs, indices[1]).x
             y_min   == At(bxs, indices[1]).y
         IN [exc |-> FALSE,
             box |-> Box(x_min, y_min, Fl(bits, MaxOf(rights) - x_min), Fl(bits, MaxOf(bottoms) - y_min))]

merge_clusters_float(bits, bxs, indices) ==
    IF MinMaxRaises(indices) THEN [exc |-> TRUE, box |-> ZeroBox]
    ELSE LET xs      == [k \in DOMAIN indices |-> At(bxs, indices[k]).x]
             ys      == [k \in DOMAIN indices |-> At(bxs, indices[k]).y]
             rights  == [k \in DOMAIN indices |-> right_float(bits, At(bxs, indices[k]))]
             bottoms == [k \in DOMAIN indices |-> bottom_float(bits, At(bxs, indices[k]))]
             x_min   == MinOf(xs)
             y_min   == MinOf(ys)
             x_max   == MaxOf(rights)
             y_max   == MaxOf(bottoms)
         IN [exc |-> FALSE,
             box |-> Box(x_min, y_min, Fl(bits, x_max - x_min), Fl(bits, y_max - y_min))]

---------------------------------------------------------------------------
(* sorted(range(n), key=lambda i: times[i][0]), line 195: the orders the   *)
(* call can return.  Python's sort is stable, so there is exactly one:     *)
(* ascending start, equal starts in index order.                           *)

IsPermutation(o, n) ==
    /\ Len(o) = n
    /\ \A i \in Range0(n) : \E k \in 1 .. n : o[k] = i

\* an unstable sort: equal starts in any order
sorted_orders_Unstable(tms) ==
    LET m == Len(tms) IN
    {o \in [1 .. m -> Range0(m)] :
        /\ IsPermutation(o, m)
        /\ \A k \in 1 .. m : \A l \in 1 .. m :
             k < l => At(tms, o[k])[1] <= At(tms, o[l])[1]}

sorted_orders(tms) ==
    LET n == Len(tms) IN
    {o \in [1 .. n -> Range0(n)] :
        /\ IsPermutation(o, n)
        /\ \A k \in 1 .. n : \A l \in 1 .. n :
             k < l => \/ At(tms, o[k])[1] < At(tms, o[l])[1]
                      \/ (At(tms, o[k])[1] = At(tms, o[l])[1] /\ o[k] < o[l])}

---------------------------------------------------------------------------
(* Inputs *)

\* longest stroke list
MaxStrokes == 3

\* defaults of cluster_strokes, lines 182-186
DefaultGapThreshold == 2
DefaultEndpointThreshold == 3
DefaultTimeWindow == 60
DefaultSeqWindow == 2
DefaultMaxForwardNeighbors == 25

DefaultConfig ==
    [gap_threshold |-> DefaultGapThreshold,
     endpoint_threshold |-> DefaultEndpointThreshold,
     time_window_s |-> DefaultTimeWindow,
     seq_window |-> DefaultSeqWindow,
     max_forward_neighbors |-> DefaultMaxForwardNeighbors]

\* a caller's retuning: no slack in space, ten seconds in time, one forward
\* neighbour
TightConfig ==
    [gap_threshold |-> 0, endpoint_threshold |-> 0, time_window_s |-> 1000,
     seq_window |-> 5, max_forward_neighbors |-> 1]

Configs == {DefaultConfig, TightConfig}

Pt(x, y, t) == [x |-> Num(x), y |-> Num(y), t |-> t]

Stroke(pts, s, e, q) ==
    [points |-> pts, startedAt |-> s, endedAt |-> e, sequenceIndex |-> q]

PtsA == <<Pt(10, 10, 0), Pt(12, 11, 5)>>
PtsB == <<Pt(11, 12, 10), Pt(13, 10, 15)>>
PtsC == <<Pt(80, 80, 500), Pt(82, 81, 505)>>
\* its first point is 3 to the right of the last point of PtsA, its box 3
\* to the right of the box of PtsA
PtsF == <<Pt(15, 11, 20), Pt(16, 12, 25)>>
\* x unparsable; a good point; y missing
PtsK == <<[x |-> Bad, y |-> Num(10), t |-> 0], Pt(30, 30, 1),
          [x |-> Num(10), y |-> None, t |-> 2]>>

\* the three strokes of the example scenario: points only
StrokeA == Stroke(PtsA, None, None, None)
StrokeB == Stroke(PtsB, None, None, None)
StrokeC == Stroke(PtsC, None, None, None)
\* a ten-second stroke, and a stroke drawn over it, inside its time window
StrokeD == Stroke(PtsA, Num(0), Num(1000), None)
StrokeE == Stroke(PtsB, Num(200), Num(300), None)
\* one endpoint threshold away from StrokeA, no timestamps
StrokeF == Stroke(PtsF, None, None, None)
\* sequence-indexed strokes, close in space and time, five apart in order
StrokeG == Stroke(PtsA, Num(0), Num(5), Num(0))
StrokeH == Stroke(PtsB, Num(10), Num(15), Num(5))
\* no points, unparsable startedAt
StrokeJ == Stroke(<<>>, Bad, None, None)
\* malformed points, endedAt only
StrokeK == Stroke(PtsK, None, Num(20), None)

\* one point, nothing usable in it; unparsable endedAt
StrokeL == Stroke(<<[x |-> None, y |-> Bad, t |-> 0]>>, Num(20), Bad, None)

\* sequence-indexed, two after StrokeG in order, started exactly the default
\* time window after the end of StrokeD
StrokeM == Stroke(PtsB, Num(1060), Num(1070), Num(2))

Catalogue == {StrokeA, StrokeB, StrokeC, StrokeD, StrokeE, StrokeF, StrokeG,
              StrokeH, StrokeJ, StrokeK, StrokeL, StrokeM}

StrokeLists == UNION {[1 .. n -> Catalogue] : n \in 0 .. MaxStrokes}

---------------------------------------------------------------------------
(* Arguments of a direct call of should_merge_strokes: strokes, boxes and  *)
(* time windows are independent parameters of the function                 *)

SeqValues == {None, Bad, Num(0), Num(2), Num(3), Num(6)}
CallPoints == {<<>>, PtsA, PtsF}
CallStrokes == {Stroke(p, None, None, q) : p \in CallPoints, q \in SeqValues}
\* the box of PtsA, a box 2 to the right of it, a far box
CallBoxes == {Box(10, 10, 2, 1), Box(14, 10, 1, 1), Box(80, 80, 2, 1)}
CallTimes == {<<0, 0>>, <<0, 1000>>, <<200, 300>>, <<1060, 1070>>}

IdleCall ==
    [pc |-> "idle", a_stroke |-> StrokeA, b_stroke |-> StrokeA,
     a_box |-> ZeroBox, b_box |-> ZeroBox, a_time |-> <<0, 0>>, b_time |-> <<0, 0>>,
     cfg |-> DefaultConfig, ret |-> FALSE]

DirectCalls ==
    {[pc |-> "call", a_stroke |-> a, b_stroke |-> b, a_box |-> ab, b_box |-> bb,
      a_time |-> at, b_time |-> bt, cfg |-> c, ret |-> FALSE] :
        a \in CallStrokes, b \in CallStrokes, ab \in CallBoxes, bb \in CallBoxes,
        at \in CallTimes, bt \in CallTimes, c \in Configs}

\* largest coordinate, width and height of the boxes of a direct call of a
\* box helper
MaxCoord == 2

GeoBoxes == {Box(x, y, w, h) : x \in 0 .. MaxCoord, y \in 0 .. MaxCoord,
                               w \in 0 .. MaxCoord, h \in 0 .. MaxCoord}

IdleGeo == [fn |-> "none", pc |-> "idle", a |-> ZeroBox, b |-> ZeroBox, ret |-> Quotient(0, 1)]

GeoCalls == {[fn |-> "intersection_over_union", pc |-> "call", a |-> a, b |-> b, ret |-> Quotient(0, 1)] : a \in GeoBoxes, b \in GeoBoxes}

\* significant binary digits of the floats of a direct call of merge_clusters
FloatBits == 3

\* longest box list of a direct call of merge_clusters
MaxMergeBoxes == 3

\* boxes whose x, y, w and h are floats of FloatBits digits
MergeBoxSet == {Box(1, 0, 0, 1), Box(2, 1, 8, 2), Box(0, 0, 0, 0), Box(1, 2, 16, 5)}

\* non-empty index lists of at most two indices into a list of k boxes
IndexLists(k) == UNION {[1 .. l -> Range0(k)] : l \in 1 .. 2}

\* merge_clusters on the concatenation of two index lists, and on the two
\* boxes that merge_clusters returns for each list
MergeCall(p, bs, l1, l2) ==
    [fn |-> "merge_clusters", pc |-> "call", bits |-> p, boxes |-> bs,
     first |-> l1, second |-> l2, ret |-> [whole |-> ZeroBox, parts |-> ZeroBox]]

\* the box lists of the direct calls of merge_clusters
MergeLists == [1 .. MaxMergeBoxes -> MergeBoxSet]

\* longest box list of a direct call of cluster_boxes
MaxBoxes == 3

\* boxes of the direct calls of cluster_boxes: four segments on one line, the
\* second and the fourth at distance 3 and 4 of the first, two overlapping
\* rectangles away from them, and the box of an empty stroke
ClusterBoxSet ==
    {Box(0, 0, 8, 0), Box(3, 0, 8, 0), Box(6, 0, 8, 0), Box(4, 0, 8, 0),
     Box(0, 20, 4, 4), Box(0, 20, 4, 6), ZeroBox}

ClusterBoxLists == UNION {[1 .. k -> ClusterBoxSet] : k \in 0 .. MaxBoxes}

ClusterBoxesCall(bs) == [fn |-> "cluster_boxes", pc |-> "call", boxes |-> bs, ret |-> <<>>]

\* point lists of a direct call of endpoint_distance: none, two points, one
\* point, a usable point between two malformed ones, one malformed point
EndpointPoints == {<<>>, PtsA, PtsF, PtsK, <<Pt(12, 14, 0)>>, <<[x |-> None, y |-> Bad, t |-> 0]>>}

EndpointCalls == {[fn |-> "endpoint_distance", pc |-> "call", a |-> Stroke(p, None, None, None), b |-> Stroke(q, None, None, None), ret |-> [inf |-> TRUE, sq |-> 0]] : p \in EndpointPoints, q \in EndpointPoints}

---------------------------------------------------------------------------
(* cluster_strokes, lines 180-245 *)

NoRet == [st |-> "none", clusters |-> <<>>, symbol_boxes |-> <<>>, boxes |-> <<>>]
Returned(c, sb, b) == [st |-> "returned", clusters |-> c, symbol_boxes |-> sb, boxes |-> b]
Raised == [st |-> "raised", clusters |-> <<>>, symbol_boxes |-> <<>>, boxes |-> <<>>]

n == Len(strokes)

Locals0 ==
    /\ boxes = <<>> /\ times = <<>> /\ order = <<>> /\ adj = <<>>
    /\ oi = 0 /\ oj = 0 /\ checked = 0
    /\ visited = <<>> /\ clusters = <<>> /\ ci = 0
    /\ stack = <<>> /\ comp = <<>> /\ symbol_boxes = <<>>

\* no second call
NoInvocation ==
    [strokes |-> <<>>, cfg |-> DefaultConfig, pc |-> "absent",
     boxes |-> <<>>, times |-> <<>>, order |-> <<>>, adj |-> <<>>,
     oi |-> 0, oj |-> 0, checked |-> 0, visited |-> <<>>, clusters |-> <<>>,
     ci |-> 0, stack |-> <<>>, comp |-> <<>>, symbol_boxes |-> <<>>,
     ret |-> NoRet, run |-> 1, first |-> NoRet, mixed |-> FALSE]

\* no run of the canvas graph
IdleGraph == [node |-> "none"]

\* the caller calls cluster_strokes(strokes, **cfg)
InitCluster ==
    /\ strokes \in StrokeLists
    /\ cfg \in Configs
    /\ pc = "enter"
    /\ Locals0
    /\ ret = NoRet
    /\ run = 1
    /\ first = NoRet
    /\ sm = IdleCall
    /\ parked = NoInvocation
    /\ graph = IdleGraph
    /\ geo = IdleGeo

\* the caller calls should_merge_strokes itself
InitMerge ==
    /\ sm \in DirectCalls
    /\ strokes = <<>>
    /\ cfg = DefaultConfig
    /\ pc = "idle"
    /\ Locals0
    /\ ret = NoRet
    /\ run = 1
    /\ first = NoRet
    /\ parked = NoInvocation
    /\ graph = IdleGraph
    /\ geo = IdleGeo

Init == InitCluster \/ InitMerge

\* lines 188-190
Enter ==
    /\ pc = "enter"
    /\ IF n = 0
       THEN /\ ret' = Returned(<<>>, <<>>, <<>>)
            /\ pc' = "done"
       ELSE /\ pc' = "boxes"
            /\ UNCHANGED ret
    /\ UNCHANGED <<sm, geo, parked, graph, strokes, cfg, boxes, times, order, adj, oi, oj, checked,
                   visited, clusters, ci, stack, comp, symbol_boxes, run, first>>

\* line 192
ComputeBoxes ==
    /\ pc = "boxes"
    /\ LET rs == [k \in 1 .. n |-> stroke_to_box(strokes[k])] IN
       IF \E k \in 1 .. n : rs[k].exc
       THEN /\ ret' = Raised
            /\ pc' = "done"
            /\ UNCHANGED boxes
       ELSE /\ boxes' = [k \in 1 .. n |-> rs[k].box]
            /\ pc' = "times"
            /\ UNCHANGED ret
    /\ UNCHANGED <<sm, geo, parked, graph, strokes, cfg, times, order, adj, oi, oj, checked,
                   visited, clusters, ci, stack, comp, symbol_boxes, run, first>>

\* line 193
ComputeTimes ==
    /\ pc = "times"
    /\ times' = [k \in 1 .. n |-> _stroke_time_window(strokes[k], 100 * (k - 1))]
    /\ pc' = "sort"
    /\ UNCHANGED <<sm, geo, parked, graph, strokes, cfg, boxes, order, adj, oi, oj, checked,
                   visited, clusters, ci, stack, comp, symbol_boxes, ret, run, first>>

\* Sort done in place on the caller's list (strokes.sort(key=...))
Sort_InPlace ==
    /\ pc = "sort"
    /\ \E o \in sorted_orders(times) :
         /\ order' = o
         /\ strokes' = [k \in 1 .. Len(strokes) |-> At(strokes, o[k])]
    /\ adj' = [k \in 1 .. Len(strokes) |-> <<>>]
    /\ oi' = 0
    /\ pc' = "scan"
    /\ UNCHANGED <<sm, geo, parked, graph, cfg, boxes, times, oj, checked,
                   visited, clusters, ci, stack, comp, symbol_boxes, ret, run, first>>

\* lines 195-197
Sort ==
    /\ pc = "sort"
    /\ \E o \in sorted_orders(times) : order' = o
    /\ adj' = [k \in 1 .. n |-> <<>>]
    /\ oi' = 0
    /\ pc' = "scan"
    /\ UNCHANGED <<sm, geo, parked, graph, strokes, cfg, boxes, times, oj, checked,
                   visited, clusters, ci, stack, comp, symbol_boxes, ret, run, first>>

\* the `for oi, i in enumerate(order)` loop, lines 199-201: next stroke i, or
\* the loop is over and lines 225-226 set up the component search
ScanOuter ==
    /\ pc = "scan"
    /\ IF oi < n
       THEN /\ checked' = 0
            /\ oj' = oi + 1
            /\ pc' = "scan_inner"
            /\ UNCHANGED <<visited, clusters, ci>>
       ELSE /\ visited' = [k \in 1 .. n |-> FALSE]
            /\ clusters' = <<>>
            /\ ci' = 0
            /\ pc' = "dfs"
            /\ UNCHANGED <<checked, oj>>
    /\ UNCHANGED <<sm, geo, parked, graph, strokes, cfg, boxes, times, order, adj, oi,
                   stack, comp, symbol_boxes, ret, run, first>>

\* TimeBreak measuring from the start of stroke i instead of its end
TimeBreak_FromStart(i, j) ==
    /\ At(times, j)[1] - At(times, i)[1] > cfg.time_window_s
    /\ At(strokes, i).sequenceIndex.tag = "none"

\* TimeBreak without the test on the sequenceIndex of stroke i
TimeBreak_IgnoresSeq(i, j) ==
    At(times, j)[1] - At(times, i)[2] > cfg.time_window_s

\* the break of lines 204-205
TimeBreak(i, j) ==
    /\ At(times, j)[1] - At(times, i)[2] > cfg.time_window_s
    /\ At(strokes, i).sequenceIndex.tag = "none"

\* CapReached stopping one candidate early
CapReached_Inclusive(c) == c >= cfg.max_forward_neighbors

\* lines 207-208, c the value of `checked` after line 206
CapReached(c) == c > cfg.max_forward_neighbors

\* lines 210-221
ShouldMergePair(i, j) ==
    should_merge_strokes(At(strokes, i), At(strokes, j), At(boxes, i), At(boxes, j),
                         cfg.gap_threshold, cfg.endpoint_threshold,
                         cfg.time_window_s, cfg.seq_window,
                         At(times, i), At(times, j))

\* AddEdge joining the two positions of the traversal order instead of the
\* stroke indices found there
AddEdge_Positions(a, i, j) ==
    LET a1 == [a EXCEPT ![oi + 1] = Append(@, oj)]
    IN  [a1 EXCEPT ![oj + 1] = Append(@, oi)]

\* lines 222-223
AddEdge(a, i, j) ==
    LET a1 == [a EXCEPT ![i + 1] = Append(@, j)]
    IN  [a1 EXCEPT ![j + 1] = Append(@, i)]

\* one pass of the `for oj in range(oi + 1, len(order))` loop, lines 202-223
ScanInner ==
    /\ pc = "scan_inner"
    /\ IF oj >= n
       THEN \* range exhausted
            /\ oi' = oi + 1
            /\ pc' = "scan"
            /\ UNCHANGED <<oj, checked, adj>>
       ELSE LET i == At(order, oi)
                j == At(order, oj)
            IN IF TimeBreak(i, j)
               THEN /\ oi' = oi + 1
                    /\ pc' = "scan"
                    /\ UNCHANGED <<oj, checked, adj>>
               ELSE /\ checked' = checked + 1
                    /\ IF CapReached(checked + 1)
                       THEN /\ oi' = oi + 1
                            /\ pc' = "scan"
                            /\ UNCHANGED <<oj, adj>>
                       ELSE /\ adj' = IF ShouldMergePair(i, j)
                                      THEN AddEdge(adj, i, j) ELSE adj
                            /\ oj' = oj + 1
                            /\ UNCHANGED <<oi, pc>>
    /\ UNCHANGED <<sm, geo, parked, graph, strokes, cfg, boxes, times, order,
                   visited, clusters, ci, stack, comp, symbol_boxes, ret, run, first>>

\* DfsOuter with the `if visited[i]: continue` of lines 229-230 left out
DfsOuter_NoSkip ==
    /\ pc = "dfs"
    /\ IF ci >= Len(strokes)
       THEN /\ pc' = "merge"
            /\ UNCHANGED <<ci, visited, stack, comp>>
       ELSE /\ stack' = <<ci>>
            /\ visited' = [visited EXCEPT ![ci + 1] = TRUE]
            /\ comp' = <<>>
            /\ pc' = "dfs_pop"
            /\ UNCHANGED ci
    /\ UNCHANGED <<sm, geo, parked, graph, strokes, cfg, boxes, times, order, adj, oi, oj, checked,
                   clusters, symbol_boxes, ret, run, first>>

\* the `for i in range(n)` loop, lines 228-233
DfsOuter ==
    /\ pc = "dfs"
    /\ IF ci >= n
       THEN /\ pc' = "merge"
            /\ UNCHANGED <<ci, visited, stack, comp>>
       ELSE IF At(visited, ci)
       THEN /\ ci' = ci + 1
            /\ UNCHANGED <<pc, visited, stack, comp>>
       ELSE /\ stack' = <<ci>>
            /\ visited' = [visited EXCEPT ![ci + 1] = TRUE]
            /\ comp' = <<>>
            /\ pc' = "dfs_pop"
            /\ UNCHANGED ci
    /\ UNCHANGED <<sm, geo, parked, graph, strokes, cfg, boxes, times, order, adj, oi, oj, checked,
                   clusters, symbol_boxes, ret, run, first>>

\* PushNeighbours without the `if visited[nxt]: continue` of lines 238-239
RECURSIVE PushNeighbours_Revisit(_, _, _, _)
PushNeighbours_Revisit(nbrs, k, vis, stk) ==
    IF k > Len(nbrs) THEN [visited |-> vis, stack |-> stk]
    ELSE LET nxt == nbrs[k] IN
         PushNeighbours_Revisit(nbrs, k + 1, [vis EXCEPT ![nxt + 1] = TRUE], Append(stk, nxt))

\* the `for nxt in adj[cur]` loop, lines 237-241, from neighbour k on
RECURSIVE PushNeighbours(_, _, _, _)
PushNeighbours(nbrs, k, vis, stk) ==
    IF k > Len(nbrs) THEN [visited |-> vis, stack |-> stk]
    ELSE LET nxt == nbrs[k] IN
         IF At(vis, nxt) THEN PushNeighbours(nbrs, k + 1, vis, stk)
         ELSE PushNeighbours(nbrs, k + 1, [vis EXCEPT ![nxt + 1] = TRUE], Append(stk, nxt))

\* DfsPop putting a finished component in front of the clusters found so far
DfsPop_Prepend ==
    /\ pc = "dfs_pop"
    /\ IF stack = <<>>
       THEN /\ clusters' = <<comp>> \o clusters
            /\ ci' = ci + 1
            /\ pc' = "dfs"
            /\ UNCHANGED <<stack, comp, visited>>
       ELSE LET cur == stack[Len(stack)]
                r   == PushNeighbours(At(adj, cur), 1, visited, SubSeq(stack, 1, Len(stack) - 1))
            IN /\ comp' = Append(comp, cur)
               /\ visited' = r.visited
               /\ stack' = r.stack
               /\ UNCHANGED <<clusters, ci, pc>>
    /\ UNCHANGED <<sm, geo, parked, graph, strokes, cfg, boxes, times, order, adj, oi, oj, checked,
                   symbol_boxes, ret, run, first>>

\* one pass of `while stack`, lines 234-241, or its end and line 242
DfsPop ==
    /\ pc = "dfs_pop"
    /\ IF stack = <<>>
       THEN /\ clusters' = Append(clusters, comp)
            /\ ci' = ci + 1
            /\ pc' = "dfs"
            /\ UNCHANGED <<stack, comp, visited>>
       ELSE LET cur == stack[Len(stack)]
                r   == PushNeighbours(At(adj, cur), 1, visited, SubSeq(stack, 1, Len(stack) - 1))
            IN /\ comp' = Append(comp, cur)
               /\ visited' = r.visited
               /\ stack' = r.stack
               /\ UNCHANGED <<clusters, ci, pc>>
    /\ UNCHANGED <<sm, geo, parked, graph, strokes, cfg, boxes, times, order, adj, oi, oj, checked,
                   symbol_boxes, ret, run, first>>

\* lines 244-245
Merge ==
    /\ pc = "merge"
    /\ LET rs == [k \in DOMAIN clusters |-> merge_clusters(boxes, clusters[k])] IN
       IF \E k \in DOMAIN clusters : rs[k].exc
       THEN /\ ret' = Raised
            /\ UNCHANGED symbol_boxes
       ELSE /\ symbol_boxes' = [k \in DOMAIN clusters |-> rs[k].box]
            /\ ret' = Returned(clusters, symbol_boxes', boxes)
    /\ pc' = "done"
    /\ UNCHANGED <<sm, geo, parked, graph, strokes, cfg, boxes, times, order, adj, oi, oj, checked,
                   visited, clusters, ci, stack, comp, run, first>>

\* the caller calls cluster_strokes a second time with the same arguments
CallAgain ==
    /\ pc = "done"
    /\ run = 1
    /\ first' = ret
    /\ run' = 2
    /\ ret' = NoRet
    /\ pc' = "enter"
    /\ boxes' = <<>> /\ times' = <<>> /\ order' = <<>> /\ adj' = <<>>
    /\ oi' = 0 /\ oj' = 0 /\ checked' = 0
    /\ visited' = <<>> /\ clusters' = <<>> /\ ci' = 0
    /\ stack' = <<>> /\ comp' = <<>> /\ symbol_boxes' = <<>>
    /\ UNCHANGED <<sm, geo, parked, graph, strokes, cfg>>

\* should_merge_strokes called directly, lines 146-177
CallShouldMerge ==
    /\ sm.pc = "call"
    /\ sm' = [sm EXCEPT
                !.pc = "done",
                !.ret = should_merge_strokes(sm.a_stroke, sm.b_stroke, sm.a_box, sm.b_box,
                                             sm.cfg.gap_threshold, sm.cfg.endpoint_threshold,
                                             sm.cfg.time_window_s, sm.cfg.seq_window,
                                             sm.a_time, sm.b_time)]
    /\ UNCHANGED <<geo, parked, graph, strokes, cfg, pc, boxes, times, order, adj, oi, oj, checked,
                   visited, clusters, ci, stack, comp, symbol_boxes, ret, run, first>>

Next ==
    \/ CallShouldMerge
    \/ Enter
    \/ ComputeBoxes
    \/ ComputeTimes
    \/ Sort
    \/ ScanOuter
    \/ ScanInner
    \/ DfsOuter
    \/ DfsPop
    \/ Merge
    \/ CallAgain

Spec == Init /\ [][Next]_vars

---------------------------------------------------------------------------
(* The box and stroke helpers called directly *)

CallIoU ==
    /\ geo.fn = "intersection_over_union"
    /\ geo.pc = "call"
    /\ geo' = [geo EXCEPT !.pc = "done", !.ret = intersection_over_union(geo.a, geo.b)]
    /\ UNCHANGED <<sm, parked, graph, strokes, cfg, pc, boxes, times, order, adj, oi, oj, checked,
                   visited, clusters, ci, stack, comp, symbol_boxes, ret, run, first>>

\* lines 105-121
CallEndpointDistance ==
    /\ geo.fn = "endpoint_distance"
    /\ geo.pc = "call"
    /\ geo' = [geo EXCEPT !.pc = "done", !.ret = endpoint_distance(geo.a, geo.b)]
    /\ UNCHANGED <<sm, parked, graph, strokes, cfg, pc, boxes, times, order, adj, oi, oj, checked,
                   visited, clusters, ci, stack, comp, symbol_boxes, ret, run, first>>

\* lines 288-311, three calls: on first + second, on first, on second, and
\* a fourth on the boxes of the last two
CallMergeClusters ==
    /\ geo.fn = "merge_clusters"
    /\ geo.pc = "call"
    /\ LET whole == merge_clusters_float(geo.bits, geo.boxes, geo.first \o geo.second).box
           one   == merge_clusters_float(geo.bits, geo.boxes, geo.first).box
           two   == merge_clusters_float(geo.bits, geo.boxes, geo.second).box
           parts == merge_clusters_float(geo.bits, <<one, two>>, <<0, 1>>).box
       IN  geo' = [geo EXCEPT !.pc = "done", !.ret = [whole |-> whole, parts |-> parts]]
    /\ UNCHANGED <<sm, parked, graph, strokes, cfg, pc, boxes, times, order, adj, oi, oj, checked,
                   visited, clusters, ci, stack, comp, symbol_boxes, ret, run, first>>

\* lines 248-284
CallClusterBoxes ==
    /\ geo.fn = "cluster_boxes"
    /\ geo.pc = "call"
    /\ geo' = [geo EXCEPT !.pc = "done", !.ret = cluster_boxes(geo.boxes)]
    /\ UNCHANGED <<sm, parked, graph, strokes, cfg, pc, boxes, times, order, adj, oi, oj, checked,
                   visited, clusters, ci, stack, comp, symbol_boxes, ret, run, first>>

InitGeometry ==
    /\ \/ geo \in GeoCalls \cup EndpointCalls
       \/ \E p \in {0, FloatBits}, bs \in MergeLists :
            \E l1 \in IndexLists(MaxMergeBoxes), l2 \in IndexLists(MaxMergeBoxes) :
                geo = MergeCall(p, bs, l1, l2)
       \/ \E bs \in ClusterBoxLists : geo = ClusterBoxesCall(bs)
    /\ sm = IdleCall
    /\ strokes = <<>>
    /\ cfg = DefaultConfig
    /\ pc = "idle"
    /\ Locals0
    /\ ret = NoRet
    /\ run = 1
    /\ first = NoRet
    /\ parked = NoInvocation
    /\ graph = IdleGraph

NextGeometry ==
    \/ CallIoU
    \/ CallEndpointDistance
    \/ CallMergeClusters
    \/ CallClusterBoxes

SpecGeometry == InitGeometry /\ [][NextGeometry]_vars

\* calls of cluster_strokes and direct calls of the helpers together
InitAll == Init \/ InitGeometry

NextAll == Next \/ NextGeometry

SpecAll == InitAll /\ [][NextAll]_vars

---------------------------------------------------------------------------
(* Two calls of cluster_strokes from two request-handling threads, each on *)
(* its own list.  Everything cluster_strokes works on is an argument or a  *)
(* local of the call (lines 181-244; the module has no global), so a call  *)
(* that is not running keeps its whole frame.  Each call is made twice:    *)
(* the first time while the other call is not in progress, the second time *)
(* with its steps interleaved with the other call's.                       *)

\* longest stroke list of two concurrent calls
MaxConcStrokes == 2

ConcCatalogue == {StrokeD, StrokeG}
ConcLists == UNION {[1 .. k -> ConcCatalogue] : k \in 0 .. MaxConcStrokes}

InitConcurrent ==
    /\ strokes \in ConcLists
    /\ cfg \in Configs
    /\ pc = "enter"
    /\ Locals0
    /\ ret = NoRet
    /\ run = 1
    /\ first = NoRet
    /\ sm = IdleCall
    /\ geo = IdleGeo
    /\ graph = IdleGraph
    /\ \E s \in ConcLists : \E c \in Configs :
         parked = [NoInvocation EXCEPT !.strokes = s, !.cfg = c, !.pc = "enter"]

\* between calls
Quiescent(p) == p \in {"enter", "done"}

\* the scheduler may change threads: while neither call is in progress, or
\* at any step once both calls are the repeated ones
MaySwitch ==
    /\ parked.pc # "absent"
    /\ \/ Quiescent(pc) /\ Quiescent(parked.pc)
       \/ run = 2 /\ parked.run = 2

\* Switch with `comp` held in a module-level list that both calls use
Switch_SharedComp ==
    /\ MaySwitch
    /\ parked' =
         [strokes |-> strokes, cfg |-> cfg, pc |-> pc,
          boxes |-> boxes, times |-> times, order |-> order, adj |-> adj,
          oi |-> oi, oj |-> oj, checked |-> checked, visited |-> visited,
          clusters |-> clusters, ci |-> ci, stack |-> stack, comp |-> comp,
          symbol_boxes |-> symbol_boxes, ret |-> ret, run |-> run, first |-> first,
          mixed |-> parked.mixed \/ (~Quiescent(pc) /\ ~Quiescent(parked.pc))]
    /\ strokes' = parked.strokes /\ cfg' = parked.cfg /\ pc' = parked.pc
    /\ boxes' = parked.boxes /\ times' = parked.times /\ order' = parked.order
    /\ adj' = parked.adj /\ oi' = parked.oi /\ oj' = parked.oj
    /\ checked' = parked.checked /\ visited' = parked.visited
    /\ clusters' = parked.clusters /\ ci' = parked.ci /\ stack' = parked.stack
    /\ symbol_boxes' = parked.symbol_boxes
    /\ ret' = parked.ret /\ run' = parked.run /\ first' = parked.first
    /\ UNCHANGED <<sm, geo, graph, comp>>

\* the other thread runs: the running call keeps its arguments and locals
\* (lines 181-244) and the other call's are the current ones
Switch ==
    /\ MaySwitch
    /\ parked' =
         [strokes |-> strokes, cfg |-> cfg, pc |-> pc,
          boxes |-> boxes, times |-> times, order |-> order, adj |-> adj,
          oi |-> oi, oj |-> oj, checked |-> checked, visited |-> visited,
          clusters |-> clusters, ci |-> ci, stack |-> stack, comp |-> comp,
          symbol_boxes |-> symbol_boxes, ret |-> ret, run |-> run, first |-> first,
          mixed |-> parked.mixed \/ (~Quiescent(pc) /\ ~Quiescent(parked.pc))]
    /\ strokes' = parked.strokes /\ cfg' = parked.cfg /\ pc' = parked.pc
    /\ boxes' = parked.boxes /\ times' = parked.times /\ order' = parked.order
    /\ adj' = parked.adj /\ oi' = parked.oi /\ oj' = parked.oj
    /\ checked' = parked.checked /\ visited' = parked.visited
    /\ clusters' = parked.clusters /\ ci' = parked.ci /\ stack' = parked.stack
    /\ comp' = parked.comp /\ symbol_boxes' = parked.symbol_boxes
    /\ ret' = parked.ret /\ run' = parked.run /\ first' = parked.first
    /\ UNCHANGED <<sm, geo, graph>>

NextConcurrent ==
    \/ Enter
    \/ ComputeBoxes
    \/ ComputeTimes
    \/ Sort
    \/ ScanOuter
    \/ ScanInner
    \/ DfsOuter
    \/ DfsPop
    \/ Merge
    \/ CallAgain
    \/ Switch

SpecConcurrent == InitConcurrent /\ [][NextConcurrent]_vars

---------------------------------------------------------------------------
(* A call of cluster_strokes that is never suspended for good: the         *)
(* interpreter goes on to the next statement of the call as long as there  *)
(* is one (weak fairness of the steps of the call).                        *)

\* strokes of the calls followed to their end: untimed, a ten-second window,
\* and two sequence-indexed strokes that merge
TerminationCatalogue == {StrokeA, StrokeD, StrokeG, StrokeM}

InitTermination ==
    /\ strokes \in UNION {[1 .. k -> TerminationCatalogue] : k \in 0 .. MaxStrokes}
    /\ cfg \in Configs
    /\ pc = "enter"
    /\ Locals0
    /\ ret = NoRet
    /\ run = 1
    /\ first = NoRet
    /\ sm = IdleCall
    /\ parked = NoInvocation
    /\ graph = IdleGraph
    /\ geo = IdleGeo

NextTermination ==
    \/ Enter
    \/ ComputeBoxes
    \/ ComputeTimes
    \/ Sort
    \/ ScanOuter
    \/ ScanInner
    \/ DfsOuter
    \/ DfsPop
    \/ Merge
    \/ CallAgain

SpecTermination == InitTermination /\ [][NextTermination]_vars /\ WF_vars(NextTermination)

---------------------------------------------------------------------------
(* The canvas graph, agents/graph.py lines 6-21, and its nodes,            *)
(* agents/nodes.py.  Each node returns a dict; the graph runtime writes    *)
(* every key of it over the field of the state with that name and goes on  *)
(* to the node the edge leads to.  A Python dict is the function from its  *)
(* keys to their values; a text is a string, the emoji of the source left  *)
(* out; opacity is in hundredths.  The text that the vision service        *)
(* returns is carried as what json.loads makes of it.                      *)

EmptyDict == [k \in {} |-> 0]

\* d.get(k, default)
Get(d, k, default) == IF k \in DOMAIN d THEN d[k] ELSE default

\* {k: v} when the key is there, {} when it is not
Entry(has, k, v) == IF has THEN k :> v ELSE EmptyDict

Bool(b) == [tag |-> "bool", val |-> b]
Str(s) == [tag |-> "str", val |-> s]
Dict(d) == [tag |-> "dict", val |-> d]

\* sep.join(parts)
RECURSIVE Join(_, _)
Join(parts, sep) ==
    IF parts = <<>> THEN ""
    ELSE IF Len(parts) = 1 THEN parts[1]
    ELSE parts[1] \o sep \o Join(Tail(parts), sep)

\* graph.py lines 14-19
EntryPoint == "ingest"
Edges ==
    ("ingest" :> "perceive") @@ ("perceive" :> "analyze_canvas")
        @@ ("analyze_canvas" :> "annotate") @@ ("annotate" :> "respond") @@ ("respond" :> "END")

\* a Stroke of perception/schemas.py lines 79-87, without the fields that
\* perceive's callee never reads
StrokeModel(pts, s, e) == [points |-> pts, startedAt |-> s, endedAt |-> e]

\* Stroke.model_dump(), nodes.py line 22: a dict without sequenceIndex
model_dump(s) == Stroke(s.points, s.startedAt, s.endedAt, None)

\* strokes of the state of a run: two drawn within a tenth of a second over
\* each other, one far away without timestamps, one without points
GraphStrokes ==
    {StrokeModel(PtsA, Num(0), Num(5)), StrokeModel(PtsB, Num(10), Num(15)),
     StrokeModel(PtsC, None, None), StrokeModel(<<>>, None, None)}

\* schemas.py lines 13-17, as built at nodes.py lines 24-25
BBoxNorm(x, y, w, h) == [x |-> x, y |-> y, w |-> w, h |-> h]

\* schemas.py lines 20-24
PerceptionState(cls, symbol, stroke, num) ==
    [tag |-> "perception", clusters |-> cls, symbol_boxes |-> symbol,
     stroke_boxes |-> stroke, num_symbols |-> num]

\* the State a run starts from, schemas.py lines 27-42
InitialState(img, strks) ==
    [node |-> EntryPoint, trace |-> <<>>, img_path |-> img, strokes |-> strks,
     flags |-> EmptyDict, perception |-> None, canvas_analysis |-> None,
     annotations |-> <<>>, final_response |-> None]

\* the run goes on from the node it is at, with the fields the node returned
Goes(updates) ==
    graph' = updates @@ [graph EXCEPT !.node = Edges[graph.node], !.trace = Append(@, graph.node)]

\* the node raised: the run ends without a final state
Fails == graph' = [graph EXCEPT !.node = "raised"]

call_vars == <<strokes, cfg, pc, boxes, times, order, adj, oi, oj, checked,
               visited, clusters, ci, stack, comp, symbol_boxes, ret, run, first>>

\* nodes.py lines 12-17
ingest ==
    /\ graph.node = "ingest"
    /\ Goes("flags" :> (("needs_annotation" :> FALSE) @@ ("has_strokes" :> (Len(graph.strokes) > 0))
                          @@ graph.flags))
    /\ UNCHANGED <<sm, geo, parked, call_vars>>

\* nodes.py lines 21-23: perceive calls cluster_strokes with the defaults
perceive_call ==
    /\ graph.node = "perceive"
    /\ pc = "idle"
    /\ strokes' = [k \in DOMAIN graph.strokes |-> model_dump(graph.strokes[k])]
    /\ cfg' = DefaultConfig
    /\ pc' = "enter"
    /\ UNCHANGED <<sm, geo, parked, graph, boxes, times, order, adj, oi, oj, checked,
                   visited, clusters, ci, stack, comp, symbol_boxes, ret, run, first>>

\* nodes.py lines 23-36, once cluster_strokes has returned
perceive ==
    /\ graph.node = "perceive"
    /\ pc = "done"
    /\ IF ret.st # "returned" THEN Fails
       ELSE LET symbol_bbox_norm ==
                    [k \in DOMAIN ret.symbol_boxes |->
                        BBoxNorm(ret.symbol_boxes[k].x, ret.symbol_boxes[k].y,
                                 ret.symbol_boxes[k].w, ret.symbol_boxes[k].h)]
                stroke_bbox_norm ==
                    [k \in DOMAIN ret.boxes |->
                        BBoxNorm(ret.boxes[k].x, ret.boxes[k].y, ret.boxes[k].w, ret.boxes[k].h)]
                perception == PerceptionState(ret.clusters, symbol_bbox_norm, stroke_bbox_norm,
                                              Len(ret.symbol_boxes))
                flags == ("needs_annotation" :> (perception.num_symbols > 0))
                            @@ ("num_symbols" :> perception.num_symbols) @@ graph.flags
            IN  Goes(("perception" :> perception) @@ ("flags" :> flags))
    /\ UNCHANGED <<sm, geo, parked, call_vars>>

\* what json.loads makes of the texts the vision service may return: an
\* object, or JSONDecodeError
Unparsable == [tag |-> "invalid"]

\* nodes.py lines 190-237; result is what VisionService.analyze_image returned
analyze_canvas_with(result) ==
    IF graph.img_path = "" THEN Goes(("canvas_analysis" :> None) @@ ("flags" :> graph.flags))
    ELSE IF ~result.success THEN Goes(("canvas_analysis" :> None) @@ ("flags" :> graph.flags))
    ELSE IF result.analysis = None THEN Fails   \* len(None), line 221: TypeError
    ELSE IF result.analysis = Unparsable
         THEN Goes(("canvas_analysis" :> None) @@ ("flags" :> graph.flags))
         ELSE Goes(("canvas_analysis" :> result.analysis) @@ ("flags" :> graph.flags))

\* JSON objects of the shape the prompt asks for, keys present or not
AnalysisFeedback(kind) ==
    CASE kind = "null"  -> None
      [] kind = "empty" -> Dict(EmptyDict)
      [] kind = "one"   -> Dict("positive" :> "Clear steps.")
      [] kind = "all"   -> Dict(("positive" :> "") @@ ("improvement" :> "Check the sign.")
                                    @@ ("next_step" :> "Try x + 3 = 7."))

AnalysisObject(hp, he, hc, c, ha, a, hf, f) ==
    Entry(hp, "problem_summary", "x + 2 = 4") @@ Entry(he, "expressions_found", <<"x = 2", "x + 2">>)
        @@ Entry(hc, "is_correct", c) @@ Entry(ha, "expected_answer", a)
        @@ Entry(hf, "feedback", AnalysisFeedback(f))

analyze_canvas ==
    /\ graph.node = "analyze_canvas"
    /\ \/ analyze_canvas_with([success |-> FALSE, analysis |-> None])
       \/ analyze_canvas_with([success |-> TRUE, analysis |-> None])
       \/ analyze_canvas_with([success |-> TRUE, analysis |-> Unparsable])
       \/ \E hp, he, hc, ha, hf \in BOOLEAN :
            \E c \in {Bool(TRUE), Bool(FALSE), None}, a \in {"", "2"} :
                \E f \in {"null", "empty", "one", "all"} :
                    analyze_canvas_with([success |-> TRUE,
                                         analysis |-> Dict(AnalysisObject(hp, he, hc, c, ha, a, hf, f))])
    /\ UNCHANGED <<sm, geo, parked, call_vars>>

\* nodes.py lines 166-186
annotate ==
    /\ graph.node = "annotate"
    /\ LET flags == graph.flags
           b == graph.perception.symbol_boxes
       IN  IF graph.perception = None \/ graph.perception.symbol_boxes = <<>>
           THEN Goes(("annotations" :> <<>>) @@ ("flags" :> flags))
           ELSE IF ~Get(flags, "needs_annotation", FALSE)
           THEN Goes(("annotations" :> <<>>) @@ ("flags" :> flags))
           ELSE Goes(("annotations" :>
                        [i \in DOMAIN b |->
                            [type |-> "highlight", topLeft |-> [x |-> b[i].x, y |-> b[i].y],
                             width |-> b[i].w, height |-> b[i].h,
                             colorHex |-> "#FFFF00", opacity |-> 25]])
                     @@ ("flags" :> flags))
    /\ UNCHANGED <<sm, geo, parked, call_vars>>

\* the parts of lines 50-80, for an analysis whose feedback is a dict
respond_parts(analysis) ==
    LET problem == Get(analysis, "problem_summary", "")
        expressions == Get(analysis, "expressions_found", <<>>)
        is_correct == Get(analysis, "is_correct", None)
        feedback == Get(analysis, "feedback", Dict(EmptyDict)).val
    IN  (IF problem # "" THEN <<"I can see you're working on: " \o problem>> ELSE <<>>)
        \o (IF expressions # <<>>
            THEN <<"\nYou wrote: "
                     \o Join([k \in DOMAIN expressions |-> "$" \o expressions[k] \o "$"], ", ")>>
            ELSE <<>>)
        \o (IF is_correct = Bool(TRUE)
            THEN <<"\n(yes) That's correct! " \o Get(analysis, "expected_answer", "")>>
            ELSE IF is_correct = Bool(FALSE)
            THEN <<"\n(no) Not quite. The correct answer is "
                     \o Get(analysis, "expected_answer", "unknown") \o ".">>
            ELSE IF Get(analysis, "expected_answer", "") # ""
            THEN <<"\nThe answer to this problem is " \o analysis.expected_answer \o ".">>
            ELSE <<>>)
        \o (IF Get(feedback, "positive", "") # ""
            THEN <<"\n\n(+) " \o feedback.positive>> ELSE <<>>)
        \o (IF Get(feedback, "improvement", "") # ""
            THEN <<"\n(!) " \o feedback.improvement>> ELSE <<>>)
        \o (IF Get(feedback, "next_step", "") # ""
            THEN <<"\n(>) " \o feedback.next_step>> ELSE <<>>)

\* respond_text without the `if parts else` of line 80
respond_text_NoDefault(state) ==
    IF state.canvas_analysis # None /\ DOMAIN state.canvas_analysis.val # {}
    THEN Join(respond_parts(state.canvas_analysis.val), "\n")
    ELSE IF Get(state.flags, "num_symbols", 0) > 0
    THEN "Canvas received! I can see your work. Ask me about it in chat for detailed feedback."
    ELSE "Canvas received! Start writing your work and I'll help you."

\* final_response, lines 45-88
respond_text(state) ==
    IF state.canvas_analysis # None /\ DOMAIN state.canvas_analysis.val # {}
    THEN LET parts == respond_parts(state.canvas_analysis.val)
         IN  IF parts # <<>> THEN Join(parts, "\n") ELSE "Great work on your canvas!"
    ELSE IF Get(state.flags, "num_symbols", 0) > 0
    THEN "Canvas received! I can see your work. Ask me about it in chat for detailed feedback."
    ELSE "Canvas received! Start writing your work and I'll help you."

\* nodes.py lines 39-90; feedback.get on a feedback that is None raises
respond ==
    /\ graph.node = "respond"
    /\ IF /\ graph.canvas_analysis # None
          /\ DOMAIN graph.canvas_analysis.val # {}
          /\ Get(graph.canvas_analysis.val, "feedback", Dict(EmptyDict)) = None
       THEN Fails
       ELSE Goes("final_response" :> Str(respond_text(graph)))
    /\ UNCHANGED <<sm, geo, parked, call_vars>>

\* graph.invoke(state), on a state with or without img_path
InitGraph ==
    /\ \E img \in {"", "canvas.png"} :
         \E strks \in UNION {[1 .. k -> GraphStrokes] : k \in 0 .. MaxStrokes} :
             graph = InitialState(img, strks)
    /\ sm = IdleCall
    /\ geo = IdleGeo
    /\ parked = NoInvocation
    /\ strokes = <<>>
    /\ cfg = DefaultConfig
    /\ pc = "idle"
    /\ Locals0
    /\ ret = NoRet
    /\ run = 1
    /\ first = NoRet

NextGraph ==
    \/ ingest
    \/ perceive_call
    \/ Enter
    \/ ComputeBoxes
    \/ ComputeTimes
    \/ Sort
    \/ ScanOuter
    \/ ScanInner
    \/ DfsOuter
    \/ DfsPop
    \/ Merge
    \/ perceive
    \/ analyze_canvas
    \/ annotate
    \/ respond

SpecGraph == InitGraph /\ [][NextGraph]_vars

---------------------------------------------------------------------------
(* Properties *)

Done == pc = "done"

\* the members of a cluster, as a set
Members(c) == {c[p] : p \in DOMAIN c}

\* the positions (cluster, place) at which index i occurs in the clusters cs
Occurrences(cs, i) == {<<k, p>> \in (DOMAIN cs) \X (0 .. n) : p \in DOMAIN cs[k] /\ cs[k][p] = i}

\* C1.  Partition invariant: when cluster_strokes is done, every stroke
\* index 0..n-1 occurs at exactly one place of exactly one returned cluster,
\* the clusters hold nothing but stroke indices, and no cluster is empty.
C1_Partition ==
    Done =>
        /\ \A i \in Range0(n) : Cardinality(Occurrences(ret.clusters, i)) = 1
        /\ \A k \in DOMAIN ret.clusters :
             /\ ret.clusters[k] # <<>>
             /\ Members(ret.clusters[k]) \subseteq Range0(n)

\* a finished call that returned a cluster of several strokes beside another
\* cluster
C1_Witness ==
    /\ Done
    /\ ret.st = "returned"
    /\ Len(ret.clusters) >= 2
    /\ \E k \in DOMAIN ret.clusters : Len(ret.clusters[k]) >= 2

\* b is the tight union of the boxes bxs[i], i in the non-empty set m
TightUnion(b, m, bxs) ==
    /\ \A i \in m : b.x <= At(bxs, i).x
    /\ \E i \in m : b.x = At(bxs, i).x
    /\ \A i \in m : b.y <= At(bxs, i).y
    /\ \E i \in m : b.y = At(bxs, i).y
    /\ \A i \in m : b.x + b.w >= At(bxs, i).x + At(bxs, i).w
    /\ \E i \in m : b.x + b.w = At(bxs, i).x + At(bxs, i).w
    /\ \A i \in m : b.y + b.h >= At(bxs, i).y + At(bxs, i).h
    /\ \E i \in m : b.y + b.h = At(bxs, i).y + At(bxs, i).h

\* C2.  Box containment: the call returns one symbolBox per cluster, and
\* symbolBoxes[k] is the tight union of the strokeBoxes of the members of
\* clusters[k].
C2_BoxContainment ==
    Done =>
        /\ Len(ret.symbol_boxes) = Len(ret.clusters)
        /\ \A k \in DOMAIN ret.clusters :
             TightUnion(ret.symbol_boxes[k], Members(ret.clusters[k]), ret.boxes)

\* a returned cluster of several strokes whose symbolBox is none of its
\* members' boxes
C2_Witness ==
    /\ Done
    /\ ret.st = "returned"
    /\ \E k \in DOMAIN ret.clusters :
         /\ Len(ret.clusters[k]) >= 2
         /\ \A i \in Members(ret.clusters[k]) : ret.symbol_boxes[k] # At(ret.boxes, i)

\* the input of the example scenario: A, B, C with their points only
ExampleInput == <<StrokeA, StrokeB, StrokeC>>

\* C3 as stated.  Example scenario: on [A, B, C] with the default thresholds
\* the call returns exactly two clusters, one holding A and B, one holding C
\* alone.
C3_Original ==
    (Done /\ strokes = ExampleInput /\ cfg = DefaultConfig) =>
        /\ Len(ret.clusters) = 2
        /\ \E k \in DOMAIN ret.clusters : Members(ret.clusters[k]) = {0, 1}
        /\ \E k \in DOMAIN ret.clusters : Members(ret.clusters[k]) = {2}

\* C3, amended.  On [A, B, C] with the default thresholds the call returns
\* three singleton clusters [[0], [1], [2]]: strokes without startedAt and
\* endedAt get the windows (0,0), (1,1), (2,2), one second apart, and the
\* time window is 0.6 s.
C3_Amended ==
    (Done /\ strokes = ExampleInput /\ cfg = DefaultConfig) =>
        ret.clusters = << <<0>>, <<1>>, <<2>> >>

\* the call on the example input has returned
C3_Witness ==
    /\ Done
    /\ strokes = ExampleInput
    /\ cfg = DefaultConfig
    /\ ret.st = "returned"
    /\ times = << <<0, 0>>, <<100, 100>>, <<200, 200>> >>

\* the distance between two intervals [a1, a2], [b1, b2]: zero when they
\* overlap
IntervalGap(a, b) == Max2(0, Max2(b[1] - a[2], a[1] - b[2]))

HasWindow(s) == IsNum(s.startedAt) /\ IsNum(s.endedAt) /\ s.startedAt.val <= s.endedAt.val
GivenWindow(s) == <<s.startedAt.val, s.endedAt.val>>
NoSeq(s) == s.sequenceIndex.tag = "none"

\* C4 as stated.  Close strokes merge: two strokes without sequenceIndex
\* whose boxes overlap or touch and whose [startedAt, endedAt] intervals are
\* at most timeWindowSeconds apart come back as one cluster, when
\* maxForwardNeighbors >= 1.
C4_Original ==
    ( /\ Done
      /\ n = 2
      /\ NoSeq(strokes[1]) /\ NoSeq(strokes[2])
      /\ HasWindow(strokes[1]) /\ HasWindow(strokes[2])
      /\ rect_gap_sq(boxes[1], boxes[2]) = 0
      /\ IntervalGap(GivenWindow(strokes[1]), GivenWindow(strokes[2])) <= cfg.time_window_s
      /\ cfg.max_forward_neighbors >= 1 )
    => ( /\ Len(ret.clusters) = 1
         /\ Members(ret.clusters[1]) = {0, 1} )

SeqFar(a, b, seq_window) ==
    /\ IsNum(a.sequenceIndex)
    /\ IsNum(b.sequenceIndex)
    /\ Abs(a.sequenceIndex.val - b.sequenceIndex.val) > seq_window

\* C5.  Sequence override: should_merge_strokes returns False for two
\* strokes that both carry an integer sequenceIndex with |seqA - seqB| >
\* seqWindow, whatever the boxes, endpoints and time windows it is given, and
\* cluster_strokes on just two such strokes returns two singleton clusters.
C5_SequenceOverride ==
    /\ (sm.pc = "done" /\ SeqFar(sm.a_stroke, sm.b_stroke, sm.cfg.seq_window))
          => sm.ret = FALSE
    /\ (Done /\ n = 2 /\ SeqFar(strokes[1], strokes[2], cfg.seq_window))
          => ret.clusters = << <<0>>, <<1>> >>

\* two sequence-far strokes with overlapping boxes, started within the time
\* window of each other, came back as two clusters
C5_Witness ==
    /\ Done
    /\ n = 2
    /\ SeqFar(strokes[1], strokes[2], cfg.seq_window)
    /\ rect_gap_sq(boxes[1], boxes[2]) = 0
    /\ _time_gap_s(times[1], times[2]) <= cfg.time_window_s
    /\ Len(ret.clusters) = 2

\* the time window section 4.4 step 2 gives stroke s at index i
ClaimWindow(s, i) ==
    IF IsNum(s.startedAt) /\ IsNum(s.endedAt) THEN <<s.startedAt.val, s.endedAt.val>>
    ELSE IF IsNum(s.startedAt) /\ s.endedAt.tag = "none" THEN <<s.startedAt.val, s.startedAt.val>>
    ELSE IF s.startedAt.tag = "none" /\ IsNum(s.endedAt) THEN <<s.endedAt.val, s.endedAt.val>>
    ELSE <<100 * i, 100 * i>>

MutuallyFar ==
    \A i \in Range0(n) : \A j \in Range0(n) :
        i < j =>
            /\ ~SqrtLeq(rect_gap_sq(At(boxes, i), At(boxes, j)), cfg.gap_threshold)
            /\ IntervalGap(ClaimWindow(At(strokes, i), i), ClaimWindow(At(strokes, j), j))
                   > cfg.time_window_s

\* C6.  Far-apart strokes stay separate: when no stroke carries a
\* sequenceIndex and every pair of strokes is more than gapThreshold apart in
\* space and more than timeWindowSeconds apart in time, the call returns one
\* singleton cluster per stroke and has added no edge.
C6_FarApart ==
    (Done /\ (\A k \in 1 .. n : NoSeq(strokes[k])) /\ MutuallyFar) =>
        /\ ret.clusters = [k \in 1 .. n |-> <<k - 1>>]
        /\ \A k \in DOMAIN adj : adj[k] = <<>>

\* three mutually far strokes, two of them with endpoints within
\* endpointThreshold of each other, came back as three clusters
C6_Witness ==
    /\ Done
    /\ n = 3
    /\ \A k \in 1 .. n : NoSeq(strokes[k])
    /\ MutuallyFar
    /\ \E i \in 1 .. n : \E j \in 1 .. n :
         /\ i # j
         /\ ~endpoint_distance(strokes[i], strokes[j]).inf
         /\ SqrtLeq(endpoint_distance(strokes[i], strokes[j]).sq, cfg.endpoint_threshold)
    /\ Len(ret.clusters) = 3

\* a well-formed (clusters, symbolBoxes, strokeBoxes) triple for the input
WellFormed(r) ==
    /\ r.st = "returned"
    /\ Len(r.boxes) = n
    /\ \A k \in DOMAIN r.boxes : r.boxes[k].w >= 0 /\ r.boxes[k].h >= 0
    /\ Len(r.symbol_boxes) = Len(r.clusters)
    /\ \A k \in DOMAIN r.symbol_boxes : r.symbol_boxes[k].w >= 0 /\ r.symbol_boxes[k].h >= 0
    /\ \A k \in DOMAIN r.clusters : Members(r.clusters[k]) \subseteq Range0(n)

\* C7.  No input is fatal: every call of cluster_strokes ends by returning a
\* well-formed triple, never by an exception, also for the empty list, for
\* strokes without points, with unusable points, with missing or unparsable
\* startedAt/endedAt.
C7_NoFatal == Done => WellFormed(ret)

\* a call on a stroke without points, a stroke with malformed points and a
\* stroke with no usable point, two of them with unparsable timestamps, has
\* returned
C7_Witness ==
    /\ Done
    /\ ret.st = "returned"
    /\ Members(strokes) = {StrokeJ, StrokeK, StrokeL}

Usable(p) == IsNum(p.x) /\ IsNum(p.y)

\* the box of C8: over the points whose x and y both parse
ClaimBox(pts) ==
    LET u  == SelectSeq(pts, Usable)
        xs == {u[k].x.val : k \in DOMAIN u}
        ys == {u[k].y.val : k \in DOMAIN u}
    IN IF u = <<>> THEN ZeroBox
       ELSE LET min_x == CHOOSE v \in xs : \A w \in xs : v <= w
                max_x == CHOOSE v \in xs : \A w \in xs : v >= w
                min_y == CHOOSE v \in ys : \A w \in ys : v <= w
                max_y == CHOOSE v \in ys : \A w \in ys : v >= w
            IN Box(min_x, min_y, max_x - min_x, max_y - min_y)

\* C8 as stated.  stroke_to_box computes the box from exactly the points
\* whose x and y both parse; a point that fails to parse contributes neither
\* coordinate; {0,0,0,0} when no usable point remains.
C8_Original ==
    (pc \in {"times", "sort", "scan", "scan_inner", "dfs", "dfs_pop", "merge"}) =>
        \A k \in 1 .. n : boxes[k] = ClaimBox(strokes[k].points)

C11_NoInterference ==
    /\ (Done /\ run = 2) => ret = first
    /\ (parked.pc = "done" /\ parked.run = 2) => parked.ret = parked.first

\* both repeated calls have returned after their steps were interleaved, and
\* both merged strokes
C11_Witness ==
    /\ Done /\ run = 2
    /\ parked.pc = "done" /\ parked.run = 2
    /\ parked.mixed
    /\ ret.st = "returned" /\ Len(ret.clusters) < n
    /\ parked.ret.st = "returned" /\ Len(parked.ret.clusters) < Len(parked.strokes)

\* C12.  Input-order indexing: the returned strokeBoxes has one box per
\* input stroke, the k-th being the box of the k-th stroke of the input list,
\* and the indices in the clusters are positions of the input list, not of
\* the start-time order: they are below n, and every member of a cluster of
\* several strokes is a stroke that merges with another member of it.
C12_InputOrder ==
    (Done /\ ret.st = "returned") =>
        /\ Len(ret.boxes) = n
        /\ \A k \in Range0(n) : At(ret.boxes, k) = stroke_to_box(At(strokes, k)).box
        /\ \A c \in DOMAIN ret.clusters :
             /\ Members(ret.clusters[c]) \subseteq Range0(n)
             /\ Len(ret.clusters[c]) >= 2 =>
                  \A i \in Members(ret.clusters[c]) :
                      \E j \in Members(ret.clusters[c]) \ {i} :
                          ShouldMergePair(i, j) \/ ShouldMergePair(j, i)

\* a finished call whose start-time order is not the input order, that
\* returned a cluster of several strokes beside another, with boxes that
\* differ between the strokes
C12_Witness ==
    /\ Done
    /\ ret.st = "returned"
    /\ \E k \in Range0(n) : At(order, k) # k
    /\ Len(ret.clusters) >= 2
    /\ \E c \in DOMAIN ret.clusters : Len(ret.clusters[c]) >= 2
    /\ \E k \in Range0(n) : At(ret.boxes, k) # At(ret.boxes, 0)

\* the unit cells of the canvas grid that a box covers
Cells(b) == {<<u, v>> \in (b.x .. right(b) - 1) \X (b.y .. bottom(b) - 1) : TRUE}

\* a direct call of intersection_over_union has returned
IoUDone == geo.fn = "intersection_over_union" /\ geo.pc = "done"

IsOne(q) == q.den > 0 /\ q.num = q.den
IsZero(q) == q.den > 0 /\ q.num = 0

FarPairInCluster ==
    \E c \in DOMAIN ret.clusters : \E i, j \in Members(ret.clusters[c]) :
        SeqFar(At(strokes, i), At(strokes, j), cfg.seq_window)

\* C15, as stated.  Sequence separation for whole clusters: no returned
\* cluster contains two strokes that both carry sequenceIndex values differing
\* by more than seqWindow.
C15_Original ==
    (Done /\ ret.st = "returned") => ~FarPairInCluster

\* C15, amended.  Sequence separation holds for the pairs the scan joins, not
\* for whole clusters: cluster_strokes never puts an edge between two strokes
\* that both carry sequenceIndex values differing by more than seqWindow, and
\* no returned cluster consists of just two such strokes.
C15_Amended ==
    /\ \A i, j \in Range0(Len(adj)) :
          j \in Members(At(adj, i)) => ~SeqFar(At(strokes, i), At(strokes, j), cfg.seq_window)
    /\ (Done /\ ret.st = "returned") =>
          \A c \in DOMAIN ret.clusters :
              Len(ret.clusters[c]) = 2 =>
                  ~SeqFar(At(strokes, ret.clusters[c][1]), At(strokes, ret.clusters[c][2]),
                          cfg.seq_window)

\* a call returned a cluster that holds two strokes more than seq_window
\* apart in sequence, joined through a third stroke
C15_Witness ==
    /\ Done
    /\ ret.st = "returned"
    /\ FarPairInCluster
    /\ \E i \in Range0(n) : Len(At(adj, i)) >= 2

\* C16, as stated.  Temporal gate: when at least one of the two strokes has
\* no sequenceIndex, should_merge_strokes rejects the pair exactly when the gap
\* between the two time windows (zero when they overlap) exceeds
\* timeWindowSeconds: a larger gap returns False, and a gap up to and
\* including timeWindowSeconds leaves the decision to the geometry, so boxes
\* within gapThreshold return True.
C16_Original ==
    (sm.pc = "done" /\ (NoSeq(sm.a_stroke) \/ NoSeq(sm.b_stroke))) =>
        /\ IntervalGap(sm.a_time, sm.b_time) > sm.cfg.time_window_s => sm.ret = FALSE
        /\ ( /\ IntervalGap(sm.a_time, sm.b_time) <= sm.cfg.time_window_s
             /\ SqrtLeq(rect_gap_sq(sm.a_box, sm.b_box), sm.cfg.gap_threshold) )
           => sm.ret = TRUE

\* the stroke carries a sequenceIndex, of whatever kind
HasSeq(s) == s.sequenceIndex.tag # "none"

\* both carry an integer sequenceIndex, at most seq_window apart
SeqNear(a, b, seq_window) ==
    /\ IsNum(a.sequenceIndex)
    /\ IsNum(b.sequenceIndex)
    /\ Abs(a.sequenceIndex.val - b.sequenceIndex.val) <= seq_window

\* the answer for two sequence-indexed strokes as a function of the strokes,
\* the boxes and the thresholds alone
TimeFreeAnswer(a, b, ab, bb, c) ==
    /\ ~SeqFar(a, b, c.seq_window)
    /\ \/ SqrtLeq(rect_gap_sq(ab, bb), c.gap_threshold)
       \/ /\ ~endpoint_distance(a, b).inf
          /\ SqrtLeq(endpoint_distance(a, b).sq, c.endpoint_threshold)

\* C17.  Sequence order takes precedence over time: for two strokes that both
\* carry a sequenceIndex the result of should_merge_strokes is a function of
\* the strokes, the boxes and the thresholds, the same for every a_time and
\* b_time; so two strokes with |seqA - seqB| <= seqWindow and rectGap <=
\* gapThreshold merge whatever their time windows, in a direct call and as
\* the two strokes of a cluster_strokes call.
C17_SequenceOverTime ==
    /\ (sm.pc = "done" /\ HasSeq(sm.a_stroke) /\ HasSeq(sm.b_stroke)) =>
          /\ sm.ret = TimeFreeAnswer(sm.a_stroke, sm.b_stroke, sm.a_box, sm.b_box, sm.cfg)
          /\ ( /\ SeqNear(sm.a_stroke, sm.b_stroke, sm.cfg.seq_window)
               /\ SqrtLeq(rect_gap_sq(sm.a_box, sm.b_box), sm.cfg.gap_threshold) )
             => sm.ret = TRUE
    /\ ( /\ Done /\ n = 2
         /\ SeqNear(strokes[1], strokes[2], cfg.seq_window)
         /\ SqrtLeq(rect_gap_sq(boxes[1], boxes[2]), cfg.gap_threshold)
         /\ cfg.max_forward_neighbors >= 1 )
       => Len(ret.clusters) = 1

\* two strokes close in sequence, with boxes within the gap threshold and
\* time windows further apart than the time window allows, were merged
C17_Witness ==
    /\ sm.pc = "done"
    /\ SeqNear(sm.a_stroke, sm.b_stroke, sm.cfg.seq_window)
    /\ SqrtLeq(rect_gap_sq(sm.a_box, sm.b_box), sm.cfg.gap_threshold)
    /\ IntervalGap(sm.a_time, sm.b_time) > sm.cfg.time_window_s
    /\ sm.ret = TRUE

\* the scan of lines 199-223 is over
ScanOver == pc \in {"dfs", "dfs_pop", "merge", "done"}

\* the graph has an edge between strokes i and j
Edge(a, i, j) == j \in Members(At(a, i))

\* how long after the end of stroke i stroke j starts
StartAfterEnd(i, j) == At(times, j)[1] - At(times, i)[2]

\* the scan from the stroke at position p of the start-time order has met,
\* at position q or before, a stroke that starts more than the time window
\* after its end, and the stroke at p has no sequenceIndex
TimeStopped(p, q) ==
    /\ NoSeq(At(strokes, At(order, p)))
    /\ \E k \in (p + 1) .. q : StartAfterEnd(At(order, p), At(order, k)) > cfg.time_window_s

\* the outcome of the scan, for the pairs within the forward-neighbour cap:
\* a pair the time stop cut off has no edge, every other pair was compared
\* and has an edge exactly when should_merge_strokes accepts it
C18_Edges ==
    ScanOver =>
        \A p, q \in Range0(Len(order)) :
            (p < q /\ q - p <= cfg.max_forward_neighbors) =>
                LET i == At(order, p)
                    j == At(order, q)
                IN  IF TimeStopped(p, q)
                    THEN ~Edge(adj, i, j)
                    ELSE Edge(adj, i, j) <=> ShouldMergePair(i, j)

\* one pass of the inner loop on the candidate at position oj
C18_Step ==
    (pc = "scan_inner" /\ oj < n) =>
        LET i == At(order, oi)
            j == At(order, oj)
            late == StartAfterEnd(i, j) > cfg.time_window_s
        IN  /\ (late /\ NoSeq(At(strokes, i))) =>
                  (pc' = "scan" /\ oi' = oi + 1 /\ adj' = adj)
            /\ ((~late \/ HasSeq(At(strokes, i))) /\ oj - oi <= cfg.max_forward_neighbors) =>
                  /\ pc' = "scan_inner" /\ oi' = oi /\ oj' = oj + 1
                  /\ Edge(adj', i, j) <=> ShouldMergePair(i, j)

\* C18.  Forward-scan early stop: the scan from stroke i over the later
\* strokes j in start-time order stops at the first j that starts more than
\* timeWindowSeconds after the end of i, and only when i has no
\* sequenceIndex; a j that starts exactly timeWindowSeconds after the end of
\* i is still compared, and a stroke i with a sequenceIndex is never stopped
\* by time.
C18_EarlyStop == []C18_Edges /\ [][C18_Step]_vars

\* the scan is over; it compared, and joined, a stroke without sequenceIndex
\* with one that starts exactly the time window after its end, and a
\* sequence-indexed stroke with one that starts more than the time window
\* after its end
C18_Witness ==
    /\ ScanOver
    /\ \E p, q \in Range0(Len(order)) :
          /\ p < q
          /\ NoSeq(At(strokes, At(order, p)))
          /\ StartAfterEnd(At(order, p), At(order, q)) = cfg.time_window_s
          /\ Edge(adj, At(order, p), At(order, q))
    /\ \E p, q \in Range0(Len(order)) :
          /\ p < q
          /\ HasSeq(At(strokes, At(order, p)))
          /\ StartAfterEnd(At(order, p), At(order, q)) > cfg.time_window_s
          /\ Edge(adj, At(order, p), At(order, q))

\* the graph and the pairs of positions of the start-time order: no edge
\* joins two strokes more than max_forward_neighbors positions apart, and
\* once the scan is over the pair exactly max_forward_neighbors apart, if
\* the time stop did not cut it off, has an edge exactly when
\* should_merge_strokes accepts it
C19_Edges ==
    (Len(order) = n /\ Len(adj) = n) =>
        \A p, q \in Range0(n) :
            LET i == At(order, p)
                j == At(order, q)
            IN  /\ q - p > cfg.max_forward_neighbors => ~Edge(adj, i, j)
                /\ (ScanOver /\ p < q /\ q - p = cfg.max_forward_neighbors /\ ~TimeStopped(p, q))
                      => (Edge(adj, i, j) <=> ShouldMergePair(i, j))

\* one step of the scan: the count starts at zero for every stroke i; a pass
\* that evaluates should_merge_strokes on the candidate at position oj (and
\* goes on to oj + 1) has oj at most max_forward_neighbors after oi, so there
\* are at most max_forward_neighbors of them for one i; the candidate after
\* that ends the scan from i with the graph as it was
C19_Step ==
    /\ (pc = "scan" /\ pc' = "scan_inner") => (checked' = 0 /\ oj' = oi + 1)
    /\ (pc = "scan_inner" /\ oj < n) =>
          /\ oj > oi
          /\ oj' = oj + 1 => oj - oi <= cfg.max_forward_neighbors
          /\ oj - oi > cfg.max_forward_neighbors =>
                (pc' = "scan" /\ oi' = oi + 1 /\ adj' = adj)

\* C19.  Forward-neighbour cap: for every stroke i the forward scan evaluates
\* should_merge_strokes on at most maxForwardNeighbors later strokes, counted
\* per stroke; the maxForwardNeighbors-th candidate in start-time order is
\* still compared and the next one is not, so no edge joins i and a stroke
\* more than maxForwardNeighbors positions after it in start-time order.
C19_NeighbourCap == []C19_Edges /\ [][C19_Step]_vars

\* three strokes under a cap of one: the first was joined with the second and
\* the second with the third, two comparisons in all, and the first and the
\* third, which should_merge_strokes accepts, were never compared
C19_Witness ==
    /\ ScanOver
    /\ n = 3
    /\ cfg.max_forward_neighbors = 1
    /\ Edge(adj, At(order, 0), At(order, 1))
    /\ Edge(adj, At(order, 1), At(order, 2))
    /\ ~Edge(adj, At(order, 0), At(order, 2))
    /\ ShouldMergePair(At(order, 0), At(order, 2))

\* neither gate of should_merge_strokes returned False on the call in sm
NeitherGateRejects ==
    IF HasSeq(sm.a_stroke) /\ HasSeq(sm.b_stroke)
    THEN ~SeqFar(sm.a_stroke, sm.b_stroke, sm.cfg.seq_window)
    ELSE _time_gap_s(sm.a_time, sm.b_time) <= sm.cfg.time_window_s

\* the squared distance between the nearest two endpoints of two point lists,
\* each taken at its first and last point
NearestEndsSq(pa, pb) ==
    LET ends(ps) == {ps[1], ps[Len(ps)]}
        d(u, v) == ((u.x.val - v.x.val) * (u.x.val - v.x.val))
                     + ((u.y.val - v.y.val) * (u.y.val - v.y.val))
        ds == {d(u, v) : u \in ends(pa), v \in ends(pb)}
    IN  CHOOSE m \in ds : \A o \in ds : m <= o

\* endpointDistance <= endpointThreshold, inclusive; a stroke without points
\* has no endpoints and an infinite endpoint distance
EndpointsAccept ==
    /\ sm.a_stroke.points # <<>>
    /\ sm.b_stroke.points # <<>>
    /\ NearestEndsSq(sm.a_stroke.points, sm.b_stroke.points)
          <= sm.cfg.endpoint_threshold * sm.cfg.endpoint_threshold

\* rectGap <= gapThreshold or endpointDistance <= endpointThreshold, both
\* inclusive
GeometryAccepts ==
    \/ rect_gap_sq(sm.a_box, sm.b_box) <= sm.cfg.gap_threshold * sm.cfg.gap_threshold
    \/ EndpointsAccept

\* C20.  Merge acceptance: when neither the sequence gate nor the temporal
\* gate rejects, should_merge_strokes returns True exactly when rectGap <=
\* gapThreshold or endpointDistance <= endpointThreshold, both inclusive; and
\* the call with the two strokes (their boxes and time windows with them)
\* exchanged returns the same.
C20_Acceptance ==
    sm.pc = "done" =>
        /\ NeitherGateRejects => (sm.ret <=> GeometryAccepts)
        /\ sm.ret = should_merge_strokes(sm.b_stroke, sm.a_stroke, sm.b_box, sm.a_box,
                                         sm.cfg.gap_threshold, sm.cfg.endpoint_threshold,
                                         sm.cfg.time_window_s, sm.cfg.seq_window,
                                         sm.b_time, sm.a_time)

\* a call that no gate rejected was accepted on a box gap exactly equal to a
\* positive gap threshold, the endpoint test not accepting
C20_Witness ==
    /\ sm.pc = "done"
    /\ NeitherGateRejects
    /\ sm.cfg.gap_threshold > 0
    /\ rect_gap_sq(sm.a_box, sm.b_box) = sm.cfg.gap_threshold * sm.cfg.gap_threshold
    /\ ~EndpointsAccept
    /\ sm.ret = TRUE

\* the traversal order o visits the strokes in ascending window start,
\* strokes with equal start in input order
AscendingStable(o, tms) ==
    \A k, l \in DOMAIN o :
        k < l => \/ At(tms, o[k])[1] < At(tms, o[l])[1]
                 \/ (At(tms, o[k])[1] = At(tms, o[l])[1] /\ o[k] < o[l])

EndsUsable(pts) == Usable(pts[1]) /\ Usable(pts[Len(pts)])

\* C22, as stated.  Endpoint distance: for two strokes that each have at
\* least one point, endpoint_distance is finite, the least of the four
\* distances between the first or last point of the one and the first or last
\* point of the other; it is +infinity when either stroke has no points.
C22_Original ==
    (geo.fn = "endpoint_distance" /\ geo.pc = "done") =>
        LET pa == geo.a.points
            pb == geo.b.points
        IN  IF pa = <<>> \/ pb = <<>>
            THEN geo.ret.inf
            ELSE /\ ~geo.ret.inf
                 /\ (EndsUsable(pa) /\ EndsUsable(pb)) => geo.ret.sq = NearestEndsSq(pa, pb)

\* a stroke with no points
Empty(s) == s.points = <<>>

\* the rect gap of the two boxes is at most the gap threshold
WithinGap(a, b, thr) == rect_gap_sq(a, b) <= thr * thr

\* C23.  Empty stroke: a stroke with no points gets the box {0,0,0,0}, and
\* should_merge_strokes accepts it with another stroke exactly when no gate
\* rejects the pair and the rect gap of the two boxes is at most
\* gapThreshold, the endpoint distance being infinite; so in cluster_strokes
\* every edge at an empty stroke joins it to a stroke whose box is within
\* gapThreshold of {0,0,0,0} and that no gate rejects, and an empty stroke
\* with no such stroke in the list is returned as a singleton cluster.
C23_EmptyStroke ==
    /\ (sm.pc = "done" /\ (Empty(sm.a_stroke) \/ Empty(sm.b_stroke))) =>
          (sm.ret <=> (NeitherGateRejects /\ WithinGap(sm.a_box, sm.b_box, sm.cfg.gap_threshold)))
    /\ (n > 0 /\ Len(boxes) = n) =>
          \A i \in Range0(n) : Empty(At(strokes, i)) => At(boxes, i) = ZeroBox
    /\ (n > 0 /\ Len(adj) = n) =>
          \A i, j \in Range0(n) :
              (Empty(At(strokes, i)) /\ Edge(adj, i, j)) =>
                  /\ WithinGap(ZeroBox, At(boxes, j), cfg.gap_threshold)
                  /\ ~GateRejects(At(strokes, i), At(strokes, j), cfg.time_window_s, cfg.seq_window, At(times, i), At(times, j))
    /\ (Done /\ ret.st = "returned") =>
          \A i \in Range0(n) :
              ( /\ Empty(At(strokes, i))
                /\ \A j \in Range0(n) \ {i} :
                      \/ ~WithinGap(ZeroBox, At(boxes, j), cfg.gap_threshold)
                      \/ GateRejects(At(strokes, i), At(strokes, j), cfg.time_window_s, cfg.seq_window, At(times, i), At(times, j)) )
              => \E c \in DOMAIN ret.clusters : ret.clusters[c] = <<i>>

\* a call returned a cluster in which an empty stroke is joined to a stroke
\* within the gap threshold, beside a cluster of a stroke that is not
C23_Witness ==
    /\ Done
    /\ ret.st = "returned"
    /\ Len(ret.clusters) >= 2
    /\ \E i \in Range0(n) :
          /\ Empty(At(strokes, i))
          /\ \E c \in DOMAIN ret.clusters :
                i \in Members(ret.clusters[c]) /\ Len(ret.clusters[c]) >= 2

\* a direct call of merge_clusters has returned
MergeDone == geo.fn = "merge_clusters" /\ geo.pc = "done"

\* the list l in every order, and l with one of its members once more: every
\* list with the members of l comes from a shortest one by such steps
Rearrangements(l) ==
    {[k \in DOMAIN l |-> l[p[k]]] : p \in Permutations(DOMAIN l)} \cup {l \o <<i>> : i \in Members(l)}

\* merge_clusters gives the box w for every rearrangement of first + second
OrderIndependent(w) ==
    \A m \in Rearrangements(geo.first \o geo.second) :
        merge_clusters_float(geo.bits, geo.boxes, m) = [exc |-> FALSE, box |-> w]

TightUnionFloat(bits, b, m, bxs) ==
    /\ \A i \in m : b.x <= At(bxs, i).x
    /\ \E i \in m : b.x = At(bxs, i).x
    /\ \A i \in m : b.y <= At(bxs, i).y
    /\ \E i \in m : b.y = At(bxs, i).y
    /\ \A i \in m : right_float(bits, b) >= right_float(bits, At(bxs, i))
    /\ \E i \in m : right_float(bits, b) = right_float(bits, At(bxs, i))
    /\ \A i \in m : bottom_float(bits, b) >= bottom_float(bits, At(bxs, i))
    /\ \E i \in m : bottom_float(bits, b) = bottom_float(bits, At(bxs, i))

\* the largest of the values f[i], i in the non-empty set m
Largest(f, m) == CHOOSE v \in {f[i] : i \in m} : \A i \in m : f[i] <= v

\* the box b has the least x and y of the boxes m of bxs, and its w and h
\* are the distances to their largest right and bottom, each rounded once
RoundedUnion(bits, b, m, bxs) ==
    LET r == Largest([i \in m |-> right_float(bits, At(bxs, i))], m)
        t == Largest([i \in m |-> bottom_float(bits, At(bxs, i))], m)
    IN  /\ \A i \in m : b.x <= At(bxs, i).x
        /\ \E i \in m : b.x = At(bxs, i).x
        /\ \A i \in m : b.y <= At(bxs, i).y
        /\ \E i \in m : b.y = At(bxs, i).y
        /\ b.w = Fl(bits, r - b.x)
        /\ b.h = Fl(bits, t - b.y)
        /\ Abs((b.x + b.w) - r) * Pow2(bits) <= r - b.x
        /\ Abs((b.y + b.h) - t) * Pow2(bits) <= t - b.y

ClusterBoxesDone == geo.fn = "cluster_boxes" /\ geo.pc = "done"

\* IoU(a, b) >= 0.5
IoUAtLeastHalf(a, b) ==
    LET q == intersection_over_union(a, b) IN q.den > 0 /\ 2 * q.num >= q.den

\* the distance between the centres (x + w/2, y + h/2) of a and b is
\* strictly less than half the largest of the four sides; all lengths are
\* doubled and squared
CentresClose(a, b) ==
    LET dx == ((2 * a.x) + a.w) - ((2 * b.x) + b.w)
        dy == ((2 * a.y) + a.h) - ((2 * b.y) + b.h)
        side == CHOOSE s \in {a.w, a.h, b.w, b.h} : \A t \in {a.w, a.h, b.w, b.h} : t <= s
    IN  4 * ((dx * dx) + (dy * dy)) < (2 * side) * (2 * side)

RECURSIVE LinkedTo(_, _, _)
\* the nodes of N that a chain of pairs of the relation R links to a node of S
LinkedTo(R, N, S) ==
    LET T == S \cup {j \in N : \E i \in S : R[i][j] \/ R[j][i]}
    IN  IF T = S THEN S ELSE LinkedTo(R, N, T)

\* the clusters cs are a partition of the indices N in which two indices
\* share a cluster exactly when a chain of pairs of R links them
ComponentsOf(cs, N, R) ==
    /\ \A i \in N : Cardinality({<<k, p>> \in (DOMAIN cs) \X (1 .. Cardinality(N)) : p \in DOMAIN cs[k] /\ cs[k][p] = i}) = 1
    /\ \A k \in DOMAIN cs : cs[k] # <<>> /\ Members(cs[k]) \subseteq N
    /\ \A k \in DOMAIN cs : \A i \in Members(cs[k]) : Members(cs[k]) = LinkedTo(R, N, {i})

NoCapForwardWindows ==
    /\ cfg.max_forward_neighbors >= n
    /\ \A k \in DOMAIN times : times[k][1] <= times[k][2]

\* should_merge_strokes on the strokes i and j of the call, in either order
Accepts == [i \in Range0(n) |-> [j \in Range0(n) |-> i # j /\ (ShouldMergePair(i, j) \/ ShouldMergePair(j, i))]]

\* C26.  Scan completeness: when maxForwardNeighbors is at least the number
\* of strokes and every window has start <= end, the graph that
\* cluster_strokes has built when it returns has an edge between two strokes
\* exactly when should_merge_strokes accepts the pair (in either order, with
\* the same answer), and the returned clusters are the connected components
\* of that graph.
C26_ScanComplete ==
    (Done /\ n > 0 /\ NoCapForwardWindows) =>
        LET acc == Accepts
        IN  /\ ret.st = "returned"
            /\ \A i, j \in Range0(n) : i < j => (ShouldMergePair(i, j) <=> ShouldMergePair(j, i))
            /\ \A i, j \in Range0(n) : i # j => (Edge(adj, i, j) <=> acc[i][j])
            /\ ComponentsOf(ret.clusters, Range0(n), acc)

\* a finished call on three strokes in which the scan from the first stroke
\* stopped at the second, so that the first and the third were never
\* compared, and which joined two strokes
C26_Witness ==
    /\ Done
    /\ n = 3
    /\ NoCapForwardWindows
    /\ TimeStopped(0, 1)
    /\ \E i, j \in Range0(n) : Edge(adj, i, j)
    /\ Len(ret.clusters) = 2

\* no stroke of the input carries startedAt, endedAt or sequenceIndex
Untimed ==
    \A k \in DOMAIN strokes :
        /\ strokes[k].startedAt.tag = "none"
        /\ strokes[k].endedAt.tag = "none"
        /\ strokes[k].sequenceIndex.tag = "none"

\* C27.  Index fallback isolates untimed strokes: when no stroke carries
\* startedAt, endedAt or sequenceIndex and timeWindowSeconds < 1, the window
\* of stroke i is (i, i) in seconds, no edge is added, and cluster_strokes
\* returns the singletons [0], [1], ... whatever the boxes of the strokes.
C27_UntimedIsolated ==
    (ScanOver /\ n > 0 /\ Untimed /\ cfg.time_window_s < 100) =>
        /\ times = [k \in 1 .. n |-> <<100 * (k - 1), 100 * (k - 1)>>]
        /\ \A i, j \in Range0(n) : ~Edge(adj, i, j)
        /\ Done => (ret.st = "returned" /\ ret.clusters = [k \in 1 .. n |-> <<k - 1>>])

\* a finished call on three untimed strokes, two of them with overlapping
\* boxes and one with the box of another, that returned three singletons
C27_Witness ==
    /\ Done
    /\ n = 3
    /\ Untimed
    /\ cfg.time_window_s < 100
    /\ rect_gap_sq(At(ret.boxes, 0), At(ret.boxes, 1)) = 0
    /\ At(ret.boxes, 0) # At(ret.boxes, 1)
    /\ At(ret.boxes, 2) = At(ret.boxes, 0)
    /\ Len(ret.clusters) = 3

\* the call is between its first statement and its return
Running == pc \in {"enter", "boxes", "times", "sort", "scan", "scan_inner", "dfs", "dfs_pop", "merge"}

\* how many times the index i occurs in the list s
Count(s, i) == Cardinality({p \in DOMAIN s : s[p] = i})

\* during and after the component search a visited stroke is at exactly one
\* place, on the stack, in the component being built or in a finished
\* cluster, and a stroke not visited is at none
Accounted ==
    (pc \in {"dfs", "dfs_pop", "merge", "done"} /\ n > 0) =>
        \A i \in Range0(n) :
            Count(stack, i) + (IF pc = "dfs_pop" THEN Count(comp, i) ELSE 0)
                + Cardinality(Occurrences(clusters, i))
              = IF At(visited, i) THEN 1 ELSE 0

\* a step of the component search: a stroke is pushed only when it is not
\* visited and is marked visited in the same step, is marked only when it is
\* pushed, stays marked, and the stroke popped goes to the component
StackStep ==
    (pc \in {"dfs", "dfs_pop"}) =>
        \A i \in Range0(n) :
            /\ Count(stack', i) > Count(stack, i) =>
                    (~At(visited, i) /\ At(visited', i) /\ Count(stack', i) = 1)
            /\ (~At(visited, i) /\ At(visited', i)) => Count(stack', i) > Count(stack, i)
            /\ At(visited, i) => At(visited', i)
            /\ (pc = "dfs_pop" /\ stack # <<>> /\ stack[Len(stack)] = i) =>
                    (comp' = Append(comp, i) /\ Count(stack', i) = 0)

\* C28.  Termination: every call of cluster_strokes returns; each forward
\* scan ends; in the component search every stroke is marked visited and
\* pushed exactly once and popped exactly once, and at the return every
\* stroke is visited and the stack is empty.
C28_Termination ==
    /\ [](Running => <>Done)
    /\ [](pc = "scan_inner" => <>(pc # "scan_inner"))
    /\ []Accounted
    /\ [][StackStep]_vars
    /\ []((Done /\ n > 0) => (stack = <<>> /\ \A i \in Range0(n) : At(visited, i)))

\* a finished call whose search pushed two neighbours in one pass and later
\* met visited neighbours: one cluster of three strokes
C28_Witness ==
    /\ Done
    /\ n = 3
    /\ Len(ret.clusters) = 1
    /\ \A i \in Range0(n) : Len(At(adj, i)) = 2

\* C29.  Cluster order: in the clusters that cluster_strokes returns the
\* first index of every cluster is the smallest index of that cluster, the
\* clusters come in strictly ascending order of that index, and the first
\* cluster starts with stroke 0.
C29_ClusterOrder ==
    (Done /\ ret.st = "returned" /\ n > 0) =>
        /\ ret.clusters # <<>>
        /\ \A k \in DOMAIN ret.clusters :
             /\ ret.clusters[k] # <<>>
             /\ \A i \in Members(ret.clusters[k]) : ret.clusters[k][1] <= i
        /\ \A k, l \in DOMAIN ret.clusters : k < l => ret.clusters[k][1] < ret.clusters[l][1]
        /\ ret.clusters[1][1] = 0

\* a call that returned two clusters, the first with its members out of
\* ascending order and the second starting between two of them
C29_Witness ==
    /\ Done
    /\ ret.st = "returned"
    /\ ret.clusters = <<<<0, 2>>, <<1>>>>

\* the run of the canvas graph has gone through its last node
Completed == graph.node = "END"

\* the highlight that annotate draws over the box b
HighlightOf(a, b) ==
    /\ a.type = "highlight"
    /\ a.topLeft = [x |-> b.x, y |-> b.y]
    /\ a.width = b.w
    /\ a.height = b.h

\* C30.  Downstream consumption: in every completed run of the canvas graph
\* the nodes ran once each in the order ingest, perceive, analyze_canvas,
\* annotate, respond; the final annotations are one highlight per symbol box
\* that cluster_strokes returned to perceive, in cluster order, with that
\* box's x, y, w and h; there is no annotation exactly when the state has no
\* strokes; and final_response is a non-empty string, whether the canvas
\* analysis gave an object or nothing.
C30_Downstream ==
    Completed =>
        /\ graph.trace = <<"ingest", "perceive", "analyze_canvas", "annotate", "respond">>
        /\ ret.st = "returned"
        /\ graph.perception.clusters = ret.clusters
        /\ Len(graph.annotations) = Len(ret.clusters)
        /\ \A k \in DOMAIN graph.annotations :
             HighlightOf(graph.annotations[k], ret.symbol_boxes[k])
        /\ (graph.annotations = <<>>) <=> (graph.strokes = <<>>)
        /\ graph.final_response.tag = "str"
        /\ graph.final_response.val # ""

\* a completed run on three strokes with two highlights, the second over
\* the box of a stroke without points, whose canvas analysis was an object
\* that yields no part of the response
C30_Witness ==
    /\ Completed
    /\ Len(graph.strokes) = 3
    /\ Len(graph.annotations) = 2
    /\ graph.annotations[1].width > 0
    /\ graph.annotations[2].width = 0
    /\ graph.canvas_analysis # None
    /\ graph.final_response.val = "Great work on your canvas!"

===========================================================================
